---- MODULE Spec2Model ----
(***************************************************************************)
(* A model of the SAMM-to-JSONata generator: the Turtle model parser and   *)
(* Entity flattener (parser.py), the property matcher (matcher.py), the    *)
(* transformation planner (transformer.py) and the generation run          *)
(* (generator.py).                                                         *)
(*                                                                         *)
(* Strings are sequences of one-character strings, so that splitting,      *)
(* lower-casing, regular-expression substitution and substring tests are   *)
(* computed as the code computes them.  An Optional[str] is None (the      *)
(* empty tuple) or Some(s) (a one-element tuple holding the string).       *)
(* Confidences and the threshold are in hundredths (0.9 is 90).            *)
(***************************************************************************)
EXTENDS Integers, Sequences, FiniteSets, TLC

VARIABLES
    \* PropertyMatcher.match_properties
    source_properties,     \* argument: the source property sequence
    target_properties,     \* argument: the target property sequence
    confidence_threshold,  \* self.confidence_threshold
    matches,               \* the list being returned
    matched_targets,       \* set of consumed target URIs
    mpc,                   \* position in match_properties
    si,                    \* position of the outer loop (source_prop)
    ti,                    \* position of the inner loop (target_prop)
    best_match,            \* 0 for None, else the position of the target object
    best_confidence,
    best_method,
    match_result,          \* the last value returned by _find_best_match
    \* SAMMParser.parse_file on one model file
    graph,                 \* self.graph: the triples of the file
    fpc,                   \* position in parse_file / _parse_aspect
    aspect_properties,     \* aspect.properties (the top-level properties)
    entities,              \* aspect.entities: the keys of the Entity cache
    all_properties,        \* all_properties, then the result aspect.properties
    top_i,                 \* position of the loop over aspect.properties
    stack,                 \* the active calls of _extract_nested_properties
    parse_calls,           \* the calls of _parse_entity so far, in order
    raised,                \* the exception leaving parse_file, or "none"
    \* Transformer.create_mapping on one matched pair
    plan_source,           \* source_prop
    plan_target,           \* target_prop
    plan_match,            \* <<method, confidence>>
    ppc,                   \* position in create_mapping
    plan_mapping,          \* the PropertyMapping returned, as a one-element tuple
    plan_log,              \* the warnings logged by the call
    \* TransformationGenerator.generate
    gpc,                   \* position in generate
    target_file,           \* the graph of the file at target_model_path
    source_aspect,         \* source_aspect.properties
    target_aspect,         \* target_aspect.properties
    mappings,
    complete_transformation,
    unmapped,
    warnings,
    result,                \* the TransformationResult, as a one-element tuple
    files_written,         \* the files written to output_dir
    gen_raised,            \* the exception leaving generate, or "none"
    log,                   \* the warnings logged by the transformer
    \* Transformer.build_complete_transformation on a list of mappings
    asm_mappings,          \* mappings
    transformation,        \* the dict under construction
    asm_i,                 \* position of the loop in mappings
    apc,                   \* position in build_complete_transformation
    asm_log                \* the warnings logged by the call

matcher_vars == <<source_properties, target_properties, confidence_threshold,
                  matches, matched_targets, mpc, si, ti, best_match,
                  best_confidence, best_method, match_result>>

flatten_vars == <<graph, fpc, aspect_properties, entities, all_properties,
                  top_i, stack, parse_calls, raised>>

plan_vars == <<plan_source, plan_target, plan_match, ppc, plan_mapping, plan_log>>

gen_vars == <<gpc, target_file, source_aspect, target_aspect, mappings,
              complete_transformation, unmapped, warnings, result,
              files_written, gen_raised, log>>

assemble_vars == <<asm_mappings, transformation, asm_i, apc, asm_log>>

non_matcher_vars == <<flatten_vars, plan_vars, gen_vars, assemble_vars>>
non_flatten_vars == <<matcher_vars, plan_vars, gen_vars, assemble_vars>>
non_plan_vars == <<matcher_vars, flatten_vars, gen_vars, assemble_vars>>
non_assemble_vars == <<matcher_vars, flatten_vars, plan_vars, gen_vars>>

vars == <<matcher_vars, flatten_vars, plan_vars, gen_vars, assemble_vars>>

----------------------------------------------------------------------------
(* Python values *)

None == <<>>
Some(x) == <<x>>

\* `if x` / `not x` on an Optional[str]: None and the empty string are falsy.
Truthy(opt) == opt # None /\ opt[1] # <<>>

\* `a or b` on Optional[str] a and str b, giving a str.
OrElse(opt, s) == IF Truthy(opt) THEN opt[1] ELSE s

UpperChars == <<"A","B","C","D","E","F","G","H","I","J","K","L","M",
                "N","O","P","Q","R","S","T","U","V","W","X","Y","Z">>
LowerChars == <<"a","b","c","d","e","f","g","h","i","j","k","l","m",
                "n","o","p","q","r","s","t","u","v","w","x","y","z">>
Digits == {"0","1","2","3","4","5","6","7","8","9"}
DigitOf == <<"1","2","3","4","5","6","7","8","9">>

lower_char(c) ==
    IF \E k \in DOMAIN UpperChars : UpperChars[k] = c
    THEN LowerChars[CHOOSE k \in DOMAIN UpperChars : UpperChars[k] = c]
    ELSE c

\* str.lower()
lower(s) == [k \in 1..Len(s) |-> lower_char(s[k])]

\* `sep in s`
Contains(s, sep) == \E k \in 1..Len(s) : s[k] = sep

\* s.split(sep)[-1]: what follows the last occurrence of sep (all of s if none)
AfterLast(s, sep) ==
    IF Contains(s, sep)
    THEN LET k == CHOOSE k \in 1..Len(s) :
                     s[k] = sep /\ \A h \in (k+1)..Len(s) : s[h] # sep
         IN  SubSeq(s, k + 1, Len(s))
    ELSE s

----------------------------------------------------------------------------
(* models.py: SAMMProperty *)

SAMMProperty(uri, local_name, preferred_name, characteristic, data_type, payload_name) ==
    [uri |-> uri, local_name |-> local_name, preferred_name |-> preferred_name,
     characteristic |-> characteristic, data_type |-> data_type,
     payload_name |-> payload_name, json_path |-> None,
     parent_property |-> None, is_collection |-> FALSE,
     is_array_element |-> FALSE]

\* parser.py: _get_local_name
get_local_name(uri) ==
    IF Contains(uri, "#") THEN AfterLast(uri, "#")
    ELSE IF Contains(uri, "/") THEN AfterLast(uri, "/")
    ELSE uri

----------------------------------------------------------------------------
(* parser.py: the graph of a model file *)

\* The triples about property, characteristic and Entity nodes are the same in
\* every file of the model; files differ in whether they hold an Aspect node
\* and in the samm:properties lists of the Aspect and of the Entities (the
\* variable graph).  rdf:type values are written with their prefix.

XMLSchema == <<"h","t","t","p",":","/","/","w","w","w",".","w","3",".","o","r","g","/","2","0","0","1","/","X","M","L","S","c","h","e","m","a">>
xsd_string == XMLSchema \o <<"#","s","t","r","i","n","g">>

P_a == <<"n","#","a">>
P_b == <<"n","#","b">>
P_c == <<"n","#","c">>
P_d == <<"n","#","d">>
Q_a == <<"m","#","a">>
P_0 == <<"n","#">>
C_EList == <<"c","#","E","L","i","s","t">>
C_E1 == <<"c","#","E","1">>
C_E2 == <<"c","#","E","2">>
C_Text == <<"c","#","T","e","x","t">>
C_Settings == <<"c","#","S","e","t","t","i","n","g","s">>
C_Series == <<"c","#","S","e","r","i","e","s">>
E1 == <<"e","#","E","1">>
E2 == <<"e","#","E","2">>
AspectURI == <<"n","#","A","s","p","e","c","t">>

EntityURIs == {E1, E2}
Subjects == {AspectURI} \cup EntityURIs

\* graph.value(node, RDF.type)
value_type(node) ==
    CASE node = C_EList -> Some("samm-c:List")
      [] node = C_E1 -> Some("samm-c:SingleEntity")
      [] node = C_E2 -> Some("samm-c:SingleEntity")
      [] node = C_Text -> Some("samm:Characteristic")
      [] node = C_Settings -> Some("samm:Characteristic")
      [] node = C_Series -> Some("samm-c:TimeSeries")
      [] node \in EntityURIs -> Some("samm:Entity")
      [] node \in {P_a, P_b, P_c, P_d, Q_a, P_0} -> Some("samm:Property")
      [] OTHER -> None

\* graph.value(node, SAMM.dataType)
value_dataType(node) ==
    CASE node = C_EList -> Some(E1)
      [] node = C_E1 -> Some(E1)
      [] node = C_E2 -> Some(E2)
      [] node = C_Text -> Some(xsd_string)
      [] node = C_Settings -> Some(xsd_string)
      [] node = C_Series -> Some(E1)
      [] OTHER -> None

\* graph.value(property_uri, SAMM.characteristic)
value_characteristic(node) ==
    CASE node = P_a -> Some(C_EList)
      [] node = P_b -> Some(C_E2)
      [] node = P_c -> Some(C_Text)
      [] node = P_d -> Some(C_E1)
      [] node = Q_a -> Some(C_Text)
      [] node = P_0 -> Some(C_Text)
      [] OTHER -> None

\* _get_preferred_name: no node of these files declares one
get_preferred_name(node) == None

\* one item of a samm:properties list, as _get_properties returns it
Entry(property_uri, payloadName) ==
    [property |-> property_uri, payloadName |-> payloadName]

\* A plausible slip: the items are collected by prepending, last declared first.
get_properties_reversed(g, subject_uri) ==
    LET items == g.properties[subject_uri]
    IN  [k \in 1..Len(items) |-> items[Len(items) + 1 - k]]

\* _get_properties(subject_uri): the list, in declaration order
get_properties(g, subject_uri) == g.properties[subject_uri]

\* str.startswith
StartsWith(s, prefix) ==
    Len(s) >= Len(prefix) /\ SubSeq(s, 1, Len(prefix)) = prefix

collection_types ==
    {"samm-c:Collection", "samm-c:Set", "samm-c:List", "samm-c:SortedSet",
     "samm-c:TimeSeries"}

\* SAMMParser._is_collection_characteristic
parser_is_collection_characteristic(characteristic_uri) ==
    LET char_type == value_type(characteristic_uri)
    IN  char_type # None /\ char_type[1] \in collection_types

\* SAMMParser._get_entity_from_characteristic: Some(entity URI) or None
get_entity_from_characteristic(characteristic_uri) ==
    LET entity == value_dataType(characteristic_uri)
    IN  IF /\ Truthy(entity)
           /\ ~StartsWith(entity[1], XMLSchema)
           /\ value_type(entity[1]) = Some("samm:Entity")
        THEN entity
        ELSE None

\* SAMMParser._parse_property
parse_property(entry) ==
    LET property_uri == entry.property
        characteristic == value_characteristic(property_uri)
        own_type == value_dataType(property_uri)
        data_type == IF ~Truthy(own_type) /\ Truthy(characteristic)
                     THEN value_dataType(characteristic[1])
                     ELSE own_type
        prop == SAMMProperty(property_uri, get_local_name(property_uri),
                             get_preferred_name(property_uri), characteristic,
                             data_type, entry.payloadName)
    IN  [prop EXCEPT !.is_collection =
            Truthy(characteristic)
            /\ parser_is_collection_characteristic(characteristic[1])]

\* SAMMParser._parse_entity: entity.properties
parse_entity(g, entity_uri) ==
    LET items == get_properties(g, entity_uri)
    IN  [k \in 1..Len(items) |-> parse_property(items[k])]

\* the Entity a property's characteristic refers to (lines 81-85, 298-302)
entity_of(prop) ==
    IF Truthy(prop.characteristic)
    THEN get_entity_from_characteristic(prop.characteristic[1])
    ELSE None

\* lines 73-75: json_path of a top-level property
top_level_property(prop) ==
    IF ~Truthy(prop.json_path)
    THEN [prop EXCEPT !.json_path = Some(OrElse(prop.payload_name, prop.local_name))]
    ELSE prop

\* A plausible slip: the parent's path left out of a nested property's path.
nested_json_path_without_parent(parent_path, entity_prop) ==
    OrElse(entity_prop.payload_name, entity_prop.local_name)

\* line 290
nested_json_path(parent_path, entity_prop) ==
    parent_path \o <<".">> \o OrElse(entity_prop.payload_name, entity_prop.local_name)

\* A plausible slip: parent_property takes the parent's path, not its name.
nested_property_named_by_path(entity_prop, parent_path, parent_name, parent_is_collection) ==
    [entity_prop EXCEPT
        !.json_path = Some(nested_json_path(parent_path, entity_prop)),
        !.parent_property = Some(parent_path),
        !.is_array_element = parent_is_collection]

\* lines 278-294: the copy of an Entity property made for one parent
nested_property(entity_prop, parent_path, parent_name, parent_is_collection) ==
    [entity_prop EXCEPT
        !.json_path = Some(nested_json_path(parent_path, entity_prop)),
        !.parent_property = Some(parent_name),
        !.is_array_element = parent_is_collection]

\* line 87: `entity_uri not in aspect.entities`.  The keys are str (line 89
\* stores str(entity_uri)) and entity_uri is an rdflib URIRef, which compares
\* unequal to every object of another type, str included: the lookup misses.
in_entities(entity_uri, keys) == FALSE

\* the depth at which the interpreter ends a recursion with RecursionError
MaxDepth == 4

\* one active call of _extract_nested_properties
Frame(entity_uri, properties, parent_path, parent_name, parent_is_collection) ==
    [entity |-> entity_uri, properties |-> properties,
     parent_path |-> parent_path, parent_name |-> parent_name,
     parent_is_collection |-> parent_is_collection, i |-> 1,
     nested_properties |-> <<>>]

NoGraph == [has_aspect |-> FALSE, properties |-> [s \in Subjects |-> <<>>]]

\* no parse is running
ParserIdle ==
    /\ graph = NoGraph
    /\ fpc = "idle"
    /\ aspect_properties = <<>>
    /\ entities = {}
    /\ all_properties = <<>>
    /\ top_i = 1
    /\ stack = <<>>
    /\ parse_calls = <<>>
    /\ raised = "none"

\* parse_file is entered with the graph of the file (lines 35-38)
ParserEntry(g) ==
    /\ graph = g
    /\ fpc = "parse_file"
    /\ aspect_properties = <<>>
    /\ entities = {}
    /\ all_properties = <<>>
    /\ top_i = 1
    /\ stack = <<>>
    /\ parse_calls = <<>>
    /\ raised = "none"

\* parse_file lines 41-43: no Aspect node, ValueError
ParseFileNoAspect ==
    /\ fpc = "parse_file"
    /\ ~graph.has_aspect
    /\ fpc' = "raised"
    /\ raised' = "ValueError"
    /\ UNCHANGED <<graph, aspect_properties, entities, all_properties, top_i,
                   stack, parse_calls>>
    /\ UNCHANGED non_flatten_vars

\* parse_file line 45, _parse_aspect lines 58-78: the top-level properties
ParseAspect ==
    /\ fpc = "parse_file"
    /\ graph.has_aspect
    /\ LET items == get_properties(graph, AspectURI)
           props == [k \in 1..Len(items) |->
                        top_level_property(parse_property(items[k]))]
       IN  /\ aspect_properties' = props
           /\ all_properties' = props
    /\ top_i' = 1
    /\ fpc' = "aspect_loop"
    /\ UNCHANGED <<graph, entities, stack, parse_calls, raised>>
    /\ UNCHANGED non_flatten_vars

\* _parse_aspect lines 80-85: a top-level property that refers to no Entity
AspectLoopLeaf ==
    /\ fpc = "aspect_loop"
    /\ top_i <= Len(aspect_properties)
    /\ entity_of(aspect_properties[top_i]) = None
    /\ top_i' = top_i + 1
    /\ UNCHANGED <<graph, fpc, aspect_properties, entities, all_properties,
                   stack, parse_calls, raised>>
    /\ UNCHANGED non_flatten_vars

\* _parse_aspect lines 85-97: the Entity is parsed (or taken from the cache)
\* and _extract_nested_properties is called
AspectLoopEntity ==
    /\ fpc = "aspect_loop"
    /\ top_i <= Len(aspect_properties)
    /\ entity_of(aspect_properties[top_i]) # None
    /\ LET prop == aspect_properties[top_i]
           entity_uri == entity_of(prop)[1]
       IN  /\ IF ~in_entities(entity_uri, entities)
              THEN /\ parse_calls' = Append(parse_calls, entity_uri)
                   /\ entities' = entities \cup {entity_uri}
              ELSE UNCHANGED <<parse_calls, entities>>
           /\ stack' = <<Frame(entity_uri, parse_entity(graph, entity_uri),
                               OrElse(prop.payload_name, prop.local_name),
                               prop.local_name, prop.is_collection)>>
    /\ fpc' = "nested"
    /\ UNCHANGED <<graph, aspect_properties, all_properties, top_i, raised>>
    /\ UNCHANGED non_flatten_vars

\* _parse_aspect lines 100-103, parse_file lines 46-48: the Aspect is returned
AspectLoopDone ==
    /\ fpc = "aspect_loop"
    /\ top_i > Len(aspect_properties)
    /\ fpc' = "returned"
    /\ UNCHANGED <<graph, aspect_properties, entities, all_properties, top_i,
                   stack, parse_calls, raised>>
    /\ UNCHANGED non_flatten_vars

Top == stack[Len(stack)]

TopNested ==
    nested_property(Top.properties[Top.i], Top.parent_path, Top.parent_name,
                    Top.parent_is_collection)

\* _extract_nested_properties lines 276-302: a property that refers to no Entity
NestedLeaf ==
    /\ fpc = "nested"
    /\ Top.i <= Len(Top.properties)
    /\ entity_of(TopNested) = None
    /\ stack' = [stack EXCEPT ![Len(stack)] =
                    [@ EXCEPT !.nested_properties = Append(@, TopNested),
                              !.i = @ + 1]]
    /\ UNCHANGED <<graph, fpc, aspect_properties, entities, all_properties,
                   top_i, parse_calls, raised>>
    /\ UNCHANGED non_flatten_vars

\* lines 276-309: a property that refers to an Entity; the Entity is parsed and
\* the function calls itself
NestedEntity ==
    /\ fpc = "nested"
    /\ Top.i <= Len(Top.properties)
    /\ entity_of(TopNested) # None
    /\ Len(stack) < MaxDepth
    /\ LET nested_prop == TopNested
           entity_uri == entity_of(nested_prop)[1]
       IN  /\ parse_calls' = Append(parse_calls, entity_uri)
           /\ stack' = Append(
                 [stack EXCEPT ![Len(stack)] =
                    [@ EXCEPT !.nested_properties = Append(@, nested_prop)]],
                 Frame(entity_uri, parse_entity(graph, entity_uri),
                       nested_prop.json_path[1], nested_prop.local_name,
                       nested_prop.is_collection))
    /\ UNCHANGED <<graph, fpc, aspect_properties, entities, all_properties,
                   top_i, raised>>
    /\ UNCHANGED non_flatten_vars

\* the same call when the interpreter's recursion limit is reached: the
\* RecursionError leaves _extract_nested_properties, _parse_aspect and parse_file
NestedOverflow ==
    /\ fpc = "nested"
    /\ Top.i <= Len(Top.properties)
    /\ entity_of(TopNested) # None
    /\ Len(stack) >= MaxDepth
    /\ fpc' = "raised"
    /\ raised' = "RecursionError"
    /\ UNCHANGED <<graph, aspect_properties, entities, all_properties, top_i,
                   stack, parse_calls>>
    /\ UNCHANGED non_flatten_vars

\* line 312 and the caller's extend (lines 310, 98)
NestedReturn ==
    /\ fpc = "nested"
    /\ Top.i > Len(Top.properties)
    /\ IF Len(stack) = 1
       THEN /\ all_properties' = all_properties \o Top.nested_properties
            /\ top_i' = top_i + 1
            /\ stack' = <<>>
            /\ fpc' = "aspect_loop"
       ELSE /\ stack' = [SubSeq(stack, 1, Len(stack) - 1)
                            EXCEPT ![Len(stack) - 1] =
                              [@ EXCEPT !.nested_properties =
                                            @ \o Top.nested_properties,
                                        !.i = @ + 1]]
            /\ UNCHANGED <<all_properties, top_i, fpc>>
    /\ UNCHANGED <<graph, aspect_properties, entities, parse_calls, raised>>
    /\ UNCHANGED non_flatten_vars

FlattenNext ==
    \/ ParseFileNoAspect
    \/ ParseAspect
    \/ AspectLoopLeaf
    \/ AspectLoopEntity
    \/ AspectLoopDone
    \/ NestedLeaf
    \/ NestedEntity
    \/ NestedOverflow
    \/ NestedReturn

----------------------------------------------------------------------------
(* matcher.py *)

MATCHING_LEVELS_swapped ==
    [characteristic_match |-> 80, preferred_name_match |-> 90,
     property_uri_match |-> 70]

MATCHING_LEVELS ==
    [characteristic_match |-> 90, preferred_name_match |-> 80,
     property_uri_match |-> 70]

RECURSIVE remove_parenthesised(_)
\* re.sub(r"\([^)]*\)", "", name): leftmost matches, each from a "(" to the
\* first ")" after it; a "(" with no ")" after it stays.
remove_parenthesised(s) ==
    IF s = <<>> THEN <<>>
    ELSE IF Head(s) = "(" /\ \E k \in 2..Len(s) : s[k] = ")"
    THEN LET k == CHOOSE k \in 2..Len(s) :
                     s[k] = ")" /\ \A h \in 2..(k-1) : s[h] # ")"
         IN  remove_parenthesised(SubSeq(s, k + 1, Len(s)))
    ELSE <<Head(s)>> \o remove_parenthesised(Tail(s))

IsLowerAlnum(c) == (\E k \in DOMAIN LowerChars : LowerChars[k] = c) \/ c \in Digits

\* re.sub(r"[^a-z0-9]", "", name)
strip_non_alnum(s) == SelectSeq(s, IsLowerAlnum)

normalize_name(name) == strip_non_alnum(remove_parenthesised(lower(name)))

characteristic_match(source_prop, target_prop) ==
    IF ~Truthy(source_prop.characteristic) \/ ~Truthy(target_prop.characteristic)
    THEN FALSE
    ELSE source_prop.characteristic = target_prop.characteristic

preferred_name_match(source_prop, target_prop) ==
    IF ~Truthy(source_prop.preferred_name) \/ ~Truthy(target_prop.preferred_name)
    THEN FALSE
    ELSE normalize_name(source_prop.preferred_name[1])
            = normalize_name(target_prop.preferred_name[1])

property_uri_match(source_prop, target_prop) ==
    lower(source_prop.local_name) = lower(target_prop.local_name)

\* A plausible slip: the name tiers tried before the characteristic tier.
find_best_match_names_first(source_prop, target_prop) ==
    IF preferred_name_match(source_prop, target_prop)
    THEN <<"preferred_name_match", MATCHING_LEVELS["preferred_name_match"]>>
    ELSE IF property_uri_match(source_prop, target_prop)
    THEN <<"property_uri_match", MATCHING_LEVELS["property_uri_match"]>>
    ELSE IF characteristic_match(source_prop, target_prop)
    THEN <<"characteristic_match", MATCHING_LEVELS["characteristic_match"]>>
    ELSE None

\* Returns <<method, confidence>> or None.
find_best_match(source_prop, target_prop) ==
    IF characteristic_match(source_prop, target_prop)
    THEN <<"characteristic_match", MATCHING_LEVELS["characteristic_match"]>>
    ELSE IF preferred_name_match(source_prop, target_prop)
    THEN <<"preferred_name_match", MATCHING_LEVELS["preferred_name_match"]>>
    ELSE IF property_uri_match(source_prop, target_prop)
    THEN <<"property_uri_match", MATCHING_LEVELS["property_uri_match"]>>
    ELSE None

\* A plausible slip: `>=`, so that a later equal candidate replaces the best.
improves_or_ties(confidence, best) == confidence >= best

\* matcher.py line 61: `if confidence > best_confidence`
improves(confidence, best) == confidence > best

\* A plausible slip: `>` for `>=`.
accepts_strictly(best, confidence, threshold) == best # 0 /\ confidence > threshold

\* matcher.py lines 67-70: `if best_match and best_confidence >= threshold`
\* (a SAMMProperty object is always truthy; None is position 0)
accepts(best, confidence, threshold) == best # 0 /\ confidence >= threshold

\* for source_prop in source_properties: the loop head (lines 48-51), and the
\* return when the sequence is exhausted (lines 80-81)
NextSource ==
    /\ mpc = "outer"
    /\ IF si <= Len(source_properties)
       THEN /\ best_match' = 0
            /\ best_confidence' = 0
            /\ best_method' = None
            /\ ti' = 1
            /\ mpc' = "inner"
       ELSE /\ mpc' = "done"
            /\ UNCHANGED <<best_match, best_confidence, best_method, ti>>
    /\ UNCHANGED <<source_properties, target_properties, confidence_threshold,
                   matches, matched_targets, si, match_result>>
    /\ UNCHANGED non_matcher_vars

\* A plausible slip: consumed targets are not passed over.
is_matched_target_never(target_prop, matched) == FALSE

\* line 54: target_prop.uri in matched_targets
is_matched_target(target_prop, matched) == target_prop.uri \in matched

\* lines 54-55: a target whose URI is consumed is passed over
SkipConsumed ==
    /\ mpc = "inner"
    /\ ti <= Len(target_properties)
    /\ is_matched_target(target_properties[ti], matched_targets)
    /\ ti' = ti + 1
    /\ UNCHANGED <<source_properties, target_properties, confidence_threshold,
                   matches, matched_targets, mpc, si, best_match,
                   best_confidence, best_method, match_result>>
    /\ UNCHANGED non_matcher_vars

\* lines 57-64: score the candidate pair and keep it if it improves on the best
ScoreTarget ==
    /\ mpc = "inner"
    /\ ti <= Len(target_properties)
    /\ ~is_matched_target(target_properties[ti], matched_targets)
    /\ LET r == find_best_match(source_properties[si], target_properties[ti])
       IN  /\ match_result' = [pair |-> <<si, ti>>, result |-> r]
           /\ IF r # None /\ improves(r[2], best_confidence)
              THEN /\ best_match' = ti
                   /\ best_confidence' = r[2]
                   /\ best_method' = Some(r[1])
              ELSE UNCHANGED <<best_match, best_confidence, best_method>>
    /\ ti' = ti + 1
    /\ UNCHANGED <<source_properties, target_properties, confidence_threshold,
                   matches, matched_targets, mpc, si>>
    /\ UNCHANGED non_matcher_vars

\* lines 66-74 when the condition holds: the Match is appended and its target
\* URI consumed
EmitMatch ==
    /\ mpc = "inner"
    /\ ti > Len(target_properties)
    /\ accepts(best_match, best_confidence, confidence_threshold)
    /\ matches' = Append(matches,
                    [source_prop |-> source_properties[si],
                     target_prop |-> target_properties[best_match],
                     method |-> best_method[1],
                     confidence |-> best_confidence,
                     s_idx |-> si, t_idx |-> best_match])
    /\ matched_targets' = matched_targets \cup {target_properties[best_match].uri}
    /\ si' = si + 1
    /\ mpc' = "outer"
    /\ UNCHANGED <<source_properties, target_properties, confidence_threshold,
                   ti, best_match, best_confidence, best_method, match_result>>
    /\ UNCHANGED non_matcher_vars

\* lines 66-70 when the condition fails: the source is left unmatched
LeaveUnmatched ==
    /\ mpc = "inner"
    /\ ti > Len(target_properties)
    /\ ~accepts(best_match, best_confidence, confidence_threshold)
    /\ si' = si + 1
    /\ mpc' = "outer"
    /\ UNCHANGED <<source_properties, target_properties, confidence_threshold,
                   matches, matched_targets, ti, best_match, best_confidence,
                   best_method, match_result>>
    /\ UNCHANGED non_matcher_vars

MatchNext ==
    \/ NextSource
    \/ SkipConsumed
    \/ ScoreTarget
    \/ EmitMatch
    \/ LeaveUnmatched

----------------------------------------------------------------------------
(* transformer.py *)

\* `sub in s` on strings
IsSubstring(sub, s) ==
    \E k \in 0..(Len(s) - Len(sub)) : SubSeq(s, k + 1, k + Len(sub)) = sub

RECURSIVE split_dots(_)
\* s.split(".")
split_dots(s) ==
    IF ~Contains(s, ".") THEN <<s>>
    ELSE LET k == CHOOSE k \in 1..Len(s) :
                     s[k] = "." /\ \A h \in 1..(k-1) : s[h] # "."
         IN  <<SubSeq(s, 1, k - 1)>> \o split_dots(SubSeq(s, k + 1, Len(s)))

RECURSIVE join_dots(_)
\* ".".join(parts)
join_dots(parts) ==
    IF parts = <<>> THEN <<>>
    ELSE IF Len(parts) = 1 THEN parts[1]
    ELSE parts[1] \o <<".">> \o join_dots(Tail(parts))

\* TYPE_CAST_MAP.get(target_type): Some(function name) or None
TYPE_CAST_MAP_get(target_type) ==
    CASE target_type = <<"s","t","r","i","n","g">> -> Some(<<"$","s","t","r","i","n","g">>)
      [] target_type = <<"i","n","t","e","g","e","r">> -> Some(<<"$","n","u","m","b","e","r">>)
      [] target_type = <<"i","n","t">> -> Some(<<"$","n","u","m","b","e","r">>)
      [] target_type = <<"f","l","o","a","t">> -> Some(<<"$","n","u","m","b","e","r">>)
      [] target_type = <<"d","o","u","b","l","e">> -> Some(<<"$","n","u","m","b","e","r">>)
      [] target_type = <<"d","e","c","i","m","a","l">> -> Some(<<"$","n","u","m","b","e","r">>)
      [] target_type = <<"b","o","o","l","e","a","n">> -> Some(<<"$","b","o","o","l","e","a","n">>)
      [] target_type = <<"n","o","n","N","e","g","a","t","i","v","e","I","n","t","e","g","e","r">> -> Some(<<"$","n","u","m","b","e","r">>)
      [] target_type = <<"p","o","s","i","t","i","v","e","I","n","t","e","g","e","r">> -> Some(<<"$","n","u","m","b","e","r">>)
      [] OTHER -> None

\* Transformer._normalize_type
normalize_type(data_type) ==
    LET type_name == IF Contains(data_type, "#") THEN AfterLast(data_type, "#")
                     ELSE IF Contains(data_type, "/") THEN AfterLast(data_type, "/")
                     ELSE data_type
    IN  lower(type_name)

numeric_types ==
    { <<"i","n","t","e","g","e","r">>, <<"i","n","t">>, <<"f","l","o","a","t">>, <<"d","o","u","b","l","e">>, <<"d","e","c","i","m","a","l">>,
      <<"n","o","n","n","e","g","a","t","i","v","e","i","n","t","e","g","e","r">>, <<"p","o","s","i","t","i","v","e","i","n","t","e","g","e","r">> }

\* A plausible slip: `and` for `or` in the boolean rule.
can_cast_both_boolean(source_type, target_type) ==
    \/ source_type \in numeric_types /\ target_type \in numeric_types
    \/ source_type = <<"s","t","r","i","n","g">>
    \/ target_type = <<"s","t","r","i","n","g">>
    \/ source_type = <<"b","o","o","l","e","a","n">> /\ target_type = <<"b","o","o","l","e","a","n">>

\* Transformer._can_cast
can_cast(source_type, target_type) ==
    IF source_type \in numeric_types /\ target_type \in numeric_types THEN TRUE
    ELSE IF source_type = <<"s","t","r","i","n","g">> THEN TRUE
    ELSE IF target_type = <<"s","t","r","i","n","g">> THEN TRUE
    ELSE IF source_type = <<"b","o","o","l","e","a","n">> \/ target_type = <<"b","o","o","l","e","a","n">> THEN TRUE
    ELSE FALSE

\* Transformer._is_collection_characteristic
transformer_is_collection_characteristic(characteristic) ==
    \E ct \in { <<"L","i","s","t">>, <<"S","e","t">>, <<"C","o","l","l","e","c","t","i","o","n">>, <<"S","o","r","t","e","d","S","e","t">> } :
        IsSubstring(ct, characteristic)

\* lines 75-81: the data types are both given, differ once normalized, and
\* the pair is or is not castable
types_differ(source_prop, target_prop) ==
    /\ Truthy(source_prop.data_type)
    /\ Truthy(target_prop.data_type)
    /\ normalize_type(source_prop.data_type[1]) # normalize_type(target_prop.data_type[1])

\* A plausible slip: `return "direct"` in the branch that logs the failed cast.
determine_transformation_type_direct_after_failed_cast(source_prop, target_prop) ==
    IF types_differ(source_prop, target_prop)
    THEN IF can_cast(normalize_type(source_prop.data_type[1]),
                     normalize_type(target_prop.data_type[1]))
         THEN "type_cast"
         ELSE "direct"
    ELSE IF /\ Truthy(source_prop.characteristic)
            /\ Truthy(target_prop.characteristic)
            /\ source_prop.characteristic # target_prop.characteristic
            /\ transformer_is_collection_characteristic(source_prop.characteristic[1])
                 # transformer_is_collection_characteristic(target_prop.characteristic[1])
    THEN "structure_transform"
    ELSE "direct"

\* Transformer._determine_transformation_type
determine_transformation_type(source_prop, target_prop) ==
    IF /\ types_differ(source_prop, target_prop)
       /\ can_cast(normalize_type(source_prop.data_type[1]),
                   normalize_type(target_prop.data_type[1]))
    THEN "type_cast"
    ELSE IF /\ Truthy(source_prop.characteristic)
            /\ Truthy(target_prop.characteristic)
            /\ source_prop.characteristic # target_prop.characteristic
            /\ transformer_is_collection_characteristic(source_prop.characteristic[1])
                 # transformer_is_collection_characteristic(target_prop.characteristic[1])
    THEN "structure_transform"
    ELSE "direct"

\* lines 84-87: the warning logged by _determine_transformation_type
determine_warnings(source_prop, target_prop) ==
    IF /\ types_differ(source_prop, target_prop)
       /\ ~can_cast(normalize_type(source_prop.data_type[1]),
                    normalize_type(target_prop.data_type[1]))
    THEN <<"Cannot cast">>
    ELSE <<>>

\* lines 136-146: "[0]" appended to the first part equal to the parent's name
insert_first_element(source_path, parent_name) ==
    LET parts == split_dots(source_path)
        hits == { k \in DOMAIN parts : parts[k] = parent_name }
    IN  IF hits = {} THEN join_dots(parts)
        ELSE LET first == CHOOSE k \in hits : \A h \in hits : k <= h
             IN  join_dots([parts EXCEPT ![first] = @ \o <<"[","0","]">>])

\* lines 122-150: base_expr
base_expression(source_prop, target_prop) ==
    LET path == IF Truthy(source_prop.json_path) THEN source_prop.json_path[1]
                ELSE OrElse(source_prop.payload_name, source_prop.local_name)
        source_path ==
            IF /\ source_prop.is_array_element
               /\ Truthy(source_prop.parent_property)
               /\ ~target_prop.is_array_element
            THEN insert_first_element(path, source_prop.parent_property[1])
            ELSE path
    IN  <<"$",".">> \o source_path

\* Transformer._generate_jsonata_expression
generate_jsonata_expression(source_prop, target_prop, transformation_type) ==
    LET base_expr == base_expression(source_prop, target_prop)
    IN  IF transformation_type = "direct" THEN base_expr
        ELSE IF transformation_type = "type_cast"
        THEN LET cast_function ==
                     TYPE_CAST_MAP_get(normalize_type(target_prop.data_type[1]))
             IN  IF Truthy(cast_function)
                 THEN cast_function[1] \o <<"(">> \o base_expr \o <<")">>
                 ELSE base_expr
        ELSE IF transformation_type = "structure_transform"
        THEN IF source_prop.is_array_element /\ ~target_prop.is_array_element
             THEN base_expr
             ELSE IF ~source_prop.is_array_element /\ target_prop.is_array_element
             THEN <<"[">> \o base_expr \o <<"]">>
             ELSE base_expr
        ELSE base_expr

\* lines 161-165: the warning logged by _generate_jsonata_expression
expression_warnings(source_prop, target_prop, transformation_type) ==
    IF /\ transformation_type = "type_cast"
       /\ ~Truthy(TYPE_CAST_MAP_get(normalize_type(target_prop.data_type[1])))
    THEN <<"No cast function">>
    ELSE <<>>

\* Transformer.create_mapping
create_mapping(source_prop, target_prop, method, confidence) ==
    LET transformation_type == determine_transformation_type(source_prop, target_prop)
    IN  [source_property |-> source_prop,
         target_property |-> target_prop,
         mapping_method |-> method,
         confidence |-> confidence,
         transformation_type |-> transformation_type,
         jsonata_fragment |->
             generate_jsonata_expression(source_prop, target_prop,
                                         transformation_type)]

\* what create_mapping logs at warning level
create_mapping_warnings(source_prop, target_prop) ==
    determine_warnings(source_prop, target_prop)
    \o expression_warnings(source_prop, target_prop,
                           determine_transformation_type(source_prop, target_prop))

\* The values of the transformation document: a fragment (str) or a dict,
\* which is a function from keys to values.
Leaf(value) == [kind |-> "str", value |-> value, items |-> <<>>]
Dict(items) == [kind |-> "dict", value |-> <<>>, items |-> items]
EmptyDict == <<>>

\* obj[key] = value
Put(items, key, value) ==
    [k \in (DOMAIN items) \cup {key} |-> IF k = key THEN value ELSE items[k]]

RECURSIVE set_keys_keeping_scalar(_, _, _)
\* A plausible slip: a scalar met on the way is kept and the new value skipped.
set_keys_keeping_scalar(items, keys, value) ==
    LET key == keys[1]
    IN  IF Len(keys) = 1
        THEN IF key \notin DOMAIN items \/ items[key].kind # "dict"
             THEN [obj |-> Put(items, key, Leaf(value)), log |-> <<>>]
             ELSE [obj |-> items, log |-> <<"Skipping value assignment">>]
        ELSE IF key \in DOMAIN items /\ items[key].kind # "dict"
        THEN [obj |-> items, log |-> <<"Skipping value assignment">>]
        ELSE LET current == IF key \notin DOMAIN items THEN EmptyDict
                            ELSE items[key].items
                 rest == set_keys_keeping_scalar(current, Tail(keys), value)
             IN  [obj |-> Put(items, key, Dict(rest.obj)), log |-> rest.log]

RECURSIVE set_keys_overwriting_children(_, _, _)
\* A plausible slip: the final key is always assigned.
set_keys_overwriting_children(items, keys, value) ==
    LET key == keys[1]
    IN  IF Len(keys) = 1
        THEN [obj |-> Put(items, key, Leaf(value)), log |-> <<>>]
        ELSE LET fresh == key \notin DOMAIN items
                 overwrite == ~fresh /\ items[key].kind # "dict"
                 current == IF fresh \/ overwrite THEN EmptyDict
                            ELSE items[key].items
                 rest == set_keys_overwriting_children(current, Tail(keys), value)
             IN  [obj |-> Put(items, key, Dict(rest.obj)),
                  log |-> (IF overwrite THEN <<"Overwriting non-dict value">>
                           ELSE <<>>) \o rest.log]

RECURSIVE set_keys_first_wins(_, _, _)
\* A plausible slip: a final key that is already set is left as it is.
set_keys_first_wins(items, keys, value) ==
    LET key == keys[1]
    IN  IF Len(keys) = 1
        THEN IF key \notin DOMAIN items
             THEN [obj |-> Put(items, key, Leaf(value)), log |-> <<>>]
             ELSE [obj |-> items, log |-> <<>>]
        ELSE LET fresh == key \notin DOMAIN items
                 overwrite == ~fresh /\ items[key].kind # "dict"
                 current == IF fresh \/ overwrite THEN EmptyDict
                            ELSE items[key].items
                 rest == set_keys_first_wins(current, Tail(keys), value)
             IN  [obj |-> Put(items, key, Dict(rest.obj)),
                  log |-> (IF overwrite THEN <<"Overwriting non-dict value">>
                           ELSE <<>>) \o rest.log]

RECURSIVE set_keys(_, _, _)
\* Transformer._set_nested_path on the split path: the dict after the call and
\* the warnings logged
set_keys(items, keys, value) ==
    LET key == keys[1]
    IN  IF Len(keys) = 1
        THEN IF key \notin DOMAIN items \/ items[key].kind # "dict"
             THEN [obj |-> Put(items, key, Leaf(value)), log |-> <<>>]
             ELSE [obj |-> items, log |-> <<"Skipping value assignment">>]
        ELSE LET fresh == key \notin DOMAIN items
                 overwrite == ~fresh /\ items[key].kind # "dict"
                 current == IF fresh \/ overwrite THEN EmptyDict
                            ELSE items[key].items
                 rest == set_keys(current, Tail(keys), value)
             IN  [obj |-> Put(items, key, Dict(rest.obj)),
                  log |-> (IF overwrite THEN <<"Overwriting non-dict value">>
                           ELSE <<>>) \o rest.log]

\* A plausible slip: the path is not split, the whole path is one key.
set_nested_path_unsplit(obj, path, value) ==
    [obj |-> Put(obj, path, Leaf(value)), log |-> <<>>]

\* Transformer._set_nested_path
set_nested_path(obj, path, value) == set_keys(obj, split_dots(path), value)

\* lines 274-279: the target path of a mapping
target_path_of(mapping) ==
    IF Truthy(mapping.target_property.json_path)
    THEN mapping.target_property.json_path[1]
    ELSE OrElse(mapping.target_property.payload_name,
                mapping.target_property.local_name)

RECURSIVE build_from(_, _)
\* the loop of build_complete_transformation, from a document under construction
build_from(done, mappings_left) ==
    IF mappings_left = <<>> THEN done
    ELSE LET mapping == Head(mappings_left)
             step == set_nested_path(done.obj, target_path_of(mapping),
                                     mapping.jsonata_fragment)
         IN  build_from([obj |-> step.obj, log |-> done.log \o step.log],
                        Tail(mappings_left))

\* Transformer.build_complete_transformation: [obj, log]
build_complete_transformation(mapping_list) ==
    build_from([obj |-> EmptyDict, log |-> <<>>], mapping_list)

\* build_complete_transformation is not running
AssemblerIdle ==
    /\ asm_mappings = <<>>
    /\ transformation = EmptyDict
    /\ asm_i = 1
    /\ apc = "idle"
    /\ asm_log = <<>>

\* lines 273-282: one iteration of the loop
AssembleMapping ==
    /\ apc = "loop"
    /\ asm_i <= Len(asm_mappings)
    /\ LET mapping == asm_mappings[asm_i]
           step == set_nested_path(transformation, target_path_of(mapping),
                                   mapping.jsonata_fragment)
       IN  /\ transformation' = step.obj
           /\ asm_log' = asm_log \o step.log
    /\ asm_i' = asm_i + 1
    /\ UNCHANGED <<asm_mappings, apc>>
    /\ UNCHANGED non_assemble_vars

\* line 284
AssembleReturn ==
    /\ apc = "loop"
    /\ asm_i > Len(asm_mappings)
    /\ apc' = "returned"
    /\ UNCHANGED <<asm_mappings, transformation, asm_i, asm_log>>
    /\ UNCHANGED non_assemble_vars

AssembleNext ==
    \/ AssembleMapping
    \/ AssembleReturn

----------------------------------------------------------------------------
(* generator.py *)

\* TransformationGenerator._find_unmapped_properties
find_unmapped_properties(source_props, target_props, mapping_list) ==
    LET mapped_source == { mapping_list[k].source_property.uri : k \in DOMAIN mapping_list }
        mapped_target == { mapping_list[k].target_property.uri : k \in DOMAIN mapping_list }
        unmapped_source == SelectSeq(source_props, LAMBDA p : p.uri \notin mapped_source)
        unmapped_target == SelectSeq(target_props, LAMBDA p : p.uri \notin mapped_target)
    IN  [source |-> [k \in DOMAIN unmapped_source |-> unmapped_source[k].local_name],
         target |-> [k \in DOMAIN unmapped_target |-> unmapped_target[k].local_name]]

\* names[:5]
FirstFive(names) == SubSeq(names, 1, IF Len(names) < 5 THEN Len(names) ELSE 5)

\* A plausible slip: a mapping at 0.7 counts as low.
low_confidence_warnings_up_to(mapping_list) ==
    LET low == SelectSeq(mapping_list, LAMBDA m : m.confidence <= 70)
    IN  [k \in DOMAIN low |->
            [type |-> "low_confidence", count |-> low[k].confidence,
             properties |-> <<low[k].source_property.local_name,
                              low[k].target_property.local_name>>]]

\* lines 158-168: one warning per mapping below 0.7
low_confidence_warnings(mapping_list) ==
    LET low == SelectSeq(mapping_list, LAMBDA m : m.confidence < 70)
    IN  [k \in DOMAIN low |->
            [type |-> "low_confidence", count |-> low[k].confidence,
             properties |-> <<low[k].source_property.local_name,
                              low[k].target_property.local_name>>]]

\* TransformationGenerator._generate_warnings
generate_warnings(mapping_list, unmapped_lists) ==
    low_confidence_warnings(mapping_list)
    \o (IF unmapped_lists.source # <<>>
        THEN <<[type |-> "unmapped_source", count |-> Len(unmapped_lists.source),
                properties |-> FirstFive(unmapped_lists.source)]>>
        ELSE <<>>)
    \o (IF unmapped_lists.target # <<>>
        THEN <<[type |-> "unmapped_target", count |-> Len(unmapped_lists.target),
                properties |-> FirstFive(unmapped_lists.target)]>>
        ELSE <<>>)

RECURSIVE SumConfidence(_)
SumConfidence(mapping_list) ==
    IF mapping_list = <<>> THEN 0
    ELSE Head(mapping_list).confidence + SumConfidence(Tail(mapping_list))

\* no generation is running
GeneratorIdle ==
    /\ gpc = "idle"
    /\ target_file = NoGraph
    /\ source_aspect = <<>>
    /\ target_aspect = <<>>
    /\ mappings = <<>>
    /\ complete_transformation = EmptyDict
    /\ unmapped = [source |-> <<>>, target |-> <<>>]
    /\ warnings = <<>>
    /\ result = None
    /\ files_written = {}
    /\ gen_raised = "none"
    /\ log = <<>>

\* create_mapping is not running
PlannerIdle ==
    /\ plan_source = None
    /\ plan_target = None
    /\ plan_match = None
    /\ ppc = "idle"
    /\ plan_mapping = None
    /\ plan_log = <<>>

\* the matcher of a generator constructed for a threshold; match_properties is
\* not running
MatcherConstructed(threshold) ==
    /\ source_properties = <<>>
    /\ target_properties = <<>>
    /\ confidence_threshold = threshold
    /\ matches = <<>>
    /\ matched_targets = {}
    /\ mpc = "idle"
    /\ si = 1
    /\ ti = 1
    /\ best_match = 0
    /\ best_confidence = 0
    /\ best_method = None
    /\ match_result = [pair |-> <<0, 0>>, result |-> None]

\* generate lines 53-55: parse_file is called for the source model
\* (the state on entry is set by the initial condition)

\* lines 55-58: the source Aspect is returned; parse_file is called for the
\* target model, with a new graph
GenSourceParsed ==
    /\ gpc = "parse_source"
    /\ fpc = "returned"
    /\ source_aspect' = all_properties
    /\ graph' = target_file
    /\ fpc' = "parse_file"
    /\ aspect_properties' = <<>>
    /\ entities' = {}
    /\ all_properties' = <<>>
    /\ top_i' = 1
    /\ stack' = <<>>
    /\ parse_calls' = <<>>
    /\ raised' = "none"
    /\ gpc' = "parse_target"
    /\ UNCHANGED <<target_file, target_aspect, mappings, complete_transformation,
                   unmapped, warnings, result, files_written, gen_raised, log>>
    /\ UNCHANGED <<matcher_vars, plan_vars, assemble_vars>>

\* lines 58-67: the target Aspect is returned; match_properties is called
GenTargetParsed ==
    /\ gpc = "parse_target"
    /\ fpc = "returned"
    /\ target_aspect' = all_properties
    /\ fpc' = "idle"
    /\ source_properties' = source_aspect
    /\ target_properties' = all_properties
    /\ matches' = <<>>
    /\ matched_targets' = {}
    /\ mpc' = "outer"
    /\ si' = 1
    /\ ti' = 1
    /\ best_match' = 0
    /\ best_confidence' = 0
    /\ best_method' = None
    /\ match_result' = [pair |-> <<0, 0>>, result |-> None]
    /\ gpc' = "match"
    /\ UNCHANGED <<confidence_threshold, graph, aspect_properties, entities,
                   all_properties, top_i, stack, parse_calls, raised>>
    /\ UNCHANGED <<target_file, source_aspect, mappings, complete_transformation,
                   unmapped, warnings, result, files_written, gen_raised, log>>
    /\ UNCHANGED <<plan_vars, assemble_vars>>

\* lines 55, 58: an exception leaving parse_file is not caught; it leaves
\* generate
GenParseRaised ==
    /\ gpc \in {"parse_source", "parse_target"}
    /\ fpc = "raised"
    /\ gen_raised' = raised
    /\ gpc' = "raised"
    /\ UNCHANGED <<target_file, source_aspect, target_aspect, mappings,
                   complete_transformation, unmapped, warnings, result,
                   files_written, log>>
    /\ UNCHANGED <<matcher_vars, flatten_vars, plan_vars, assemble_vars>>

\* lines 69-113: the mappings, the document, the unmapped lists, the warnings
\* and the TransformationResult
GenBuildResult ==
    /\ gpc = "match"
    /\ mpc = "done"
    /\ LET new_mappings ==
               [k \in DOMAIN matches |->
                   create_mapping(matches[k].source_prop, matches[k].target_prop,
                                  matches[k].method, matches[k].confidence)]
           logged ==
               [k \in DOMAIN matches |->
                   create_mapping_warnings(matches[k].source_prop,
                                           matches[k].target_prop)]
           built == build_complete_transformation(new_mappings)
           new_unmapped == find_unmapped_properties(source_aspect, target_aspect,
                                                    new_mappings)
           new_warnings == generate_warnings(new_mappings, new_unmapped)
           flat[k \in 0..Len(logged)] ==
               IF k = 0 THEN <<>> ELSE flat[k - 1] \o logged[k]
       IN  /\ mappings' = new_mappings
           /\ complete_transformation' = built.obj
           /\ log' = log \o flat[Len(logged)] \o built.log
           /\ unmapped' = new_unmapped
           /\ warnings' = new_warnings
           /\ result' = Some([metadata |->
                                 [confidence_sum |-> SumConfidence(new_mappings),
                                  total_mappings |-> Len(new_mappings),
                                  source_properties_count |-> Len(source_aspect),
                                  target_properties_count |-> Len(target_aspect)],
                              mappings |-> new_mappings,
                              complete_transformation |-> built.obj,
                              unmapped_properties |-> new_unmapped,
                              warnings |-> new_warnings])
    /\ gpc' = "write"
    /\ UNCHANGED <<target_file, source_aspect, target_aspect, files_written,
                   gen_raised>>
    /\ UNCHANGED <<matcher_vars, flatten_vars, plan_vars, assemble_vars>>

\* lines 116-130: _write_output writes both files and the result is returned
GenWriteOutput ==
    /\ gpc = "write"
    /\ files_written' = {"mapping_result.json", "transformation.jsonata"}
    /\ gpc' = "returned"
    /\ UNCHANGED <<target_file, source_aspect, target_aspect, mappings,
                   complete_transformation, unmapped, warnings, result,
                   gen_raised, log>>
    /\ UNCHANGED <<matcher_vars, flatten_vars, plan_vars, assemble_vars>>

GenerateNext ==
    \/ ParseFileNoAspect
    \/ ParseAspect
    \/ AspectLoopLeaf
    \/ AspectLoopEntity
    \/ AspectLoopDone
    \/ NestedLeaf
    \/ NestedEntity
    \/ NestedOverflow
    \/ NestedReturn
    \/ GenSourceParsed
    \/ GenTargetParsed
    \/ GenParseRaised
    \/ NextSource
    \/ SkipConsumed
    \/ ScoreTarget
    \/ EmitMatch
    \/ LeaveUnmatched
    \/ GenBuildResult
    \/ GenWriteOutput

\* lines 30-63: create_mapping applied to a matched pair
CreateMapping ==
    /\ ppc = "call"
    /\ plan_mapping' = Some(create_mapping(plan_source[1], plan_target[1],
                                           plan_match[1], plan_match[2]))
    /\ plan_log' = create_mapping_warnings(plan_source[1], plan_target[1])
    /\ ppc' = "done"
    /\ UNCHANGED <<plan_source, plan_target, plan_match>>
    /\ UNCHANGED non_plan_vars

PlanNext == CreateMapping

----------------------------------------------------------------------------
(* The matcher on its own: match_properties applied to bounded inputs *)

MaxSource == 2
MaxTarget == 2

\* A property as the parser builds it from a URI (local_name is derived).
MatcherProp(uri, preferred_name, characteristic) ==
    SAMMProperty(uri, get_local_name(uri), preferred_name, characteristic,
                 None, None)

SourcePool ==
    { MatcherProp(<<"s","#","i","d">>, Some(<<"A"," ","b">>), Some(<<"c","#","T">>)),
      MatcherProp(<<"s","#","I","d">>, None, None),
      MatcherProp(<<"s","#">>, None, None),
      MatcherProp(<<"s","#","x">>, Some(<<"a","b","(","c",")">>), Some(<<"c","#","U">>)) }

TargetPool ==
    { MatcherProp(<<"t","#","I","D">>, None, None),
      MatcherProp(<<"t","#","y">>, Some(<<"a","-","B">>), None),
      MatcherProp(<<"t","#","i","d">>, Some(<<"z","z">>), Some(<<"c","#","T">>)),
      MatcherProp(<<"t","#">>, Some(<<>>), Some(<<"c","#","V">>)) }

Thresholds == {0, 60, 70, 75, 95}

SeqsUpTo(S, n) == UNION { [1..k -> S] : k \in 0..n }

\* The state on entry to match_properties (lines 45-46)
MatcherEntry ==
    /\ matches = <<>>
    /\ matched_targets = {}
    /\ mpc = "outer"
    /\ si = 1
    /\ ti = 1
    /\ best_match = 0
    /\ best_confidence = 0
    /\ best_method = None
    /\ match_result = [pair |-> <<0, 0>>, result |-> None]

\* match_properties is not running
MatcherIdle == MatcherConstructed(0)

MatchInit ==
    /\ source_properties \in SeqsUpTo(SourcePool, MaxSource)
    /\ target_properties \in SeqsUpTo(TargetPool, MaxTarget)
    /\ confidence_threshold \in Thresholds
    /\ MatcherEntry
    /\ ParserIdle
    /\ PlannerIdle
    /\ GeneratorIdle
    /\ AssemblerIdle

SpecMatch == MatchInit /\ [][MatchNext]_vars

----------------------------------------------------------------------------
(* The parser on its own: parse_file applied to a bounded family of files *)

MaxProps == 2

AspectCatalogue ==
    << Entry(P_a, None), Entry(P_b, None), Entry(P_c, None), Entry(Q_a, None),
       Entry(P_0, None), Entry(P_a, Some(<<"p">>)), Entry(P_c, Some(<<"a",".","c">>)) >>
E1Catalogue == << Entry(P_b, None), Entry(P_c, None), Entry(P_d, None) >>
E2Catalogue == << Entry(P_c, None), Entry(P_d, None), Entry(P_a, None) >>

\* the items of catalogue at the positions in chosen, in catalogue order
Pick(catalogue, chosen) ==
    LET positions == SelectSeq([k \in 1..Len(catalogue) |-> k],
                               LAMBDA k : k \in chosen)
    IN  [j \in 1..Len(positions) |-> catalogue[positions[j]]]

\* the property lists of at most n items drawn from a catalogue
ListsFrom(catalogue, n) ==
    { Pick(catalogue, chosen) :
        chosen \in { c \in SUBSET (1..Len(catalogue)) : Cardinality(c) <= n } }

GraphOf(has_aspect, aspect_list, e1_list, e2_list) ==
    [has_aspect |-> has_aspect,
     properties |-> [s \in Subjects |->
                        IF s = AspectURI THEN aspect_list
                        ELSE IF s = E1 THEN e1_list ELSE e2_list]]

Graphs ==
    { GraphOf(TRUE, a, x, y) :
        a \in ListsFrom(AspectCatalogue, MaxProps),
        x \in ListsFrom(E1Catalogue, MaxProps),
        y \in ListsFrom(E2Catalogue, MaxProps) }
    \cup
    { GraphOf(FALSE, <<>>, x, y) :
        x \in ListsFrom(E1Catalogue, MaxProps),
        y \in ListsFrom(E2Catalogue, MaxProps) }

FlattenInit ==
    /\ \E g \in Graphs : ParserEntry(g)
    /\ MatcherIdle
    /\ PlannerIdle
    /\ GeneratorIdle
    /\ AssemblerIdle

SpecFlatten == FlattenInit /\ [][FlattenNext]_vars

----------------------------------------------------------------------------
(* The transformer on its own: create_mapping applied to one matched pair *)

xsd(name) == XMLSchema \o <<"#">> \o name

\* the data types of a pair: absent, XSD types, a type URI without '#', a bare
\* upper-case name and an Entity
PlanTypes ==
    { None, Some(xsd_string), Some(xsd(<<"i","n","t","e","g","e","r">>)), Some(xsd(<<"d","o","u","b","l","e">>)),
      Some(xsd(<<"b","o","o","l","e","a","n">>)), Some(xsd(<<"d","a","t","e">>)), Some(xsd(<<"l","o","n","g">>)),
      Some(xsd(<<"n","o","n","N","e","g","a","t","i","v","e","I","n","t","e","g","e","r">>)), Some(<<"h","t","t","p",":","/","/","x",".","o","r","g","/","t","y","p","e","s","/","I","n","t","e","g","e","r">>),
      Some(<<"S","T","R","I","N","G">>), Some(E1), Some(xsd(<<"p","o","s","i","t","i","v","e","I","n","t","e","g","e","r">>)) }

\* absent, two scalars (the identifier of one contains "Set"), a List and a
\* TimeSeries
PlanCharacteristics ==
    { None, Some(C_Text), Some(C_EList), Some(C_Settings), Some(C_Series) }

\* A property as the parser builds it: at the top level, or nested in the
\* Entity of the collection a.
PlanProp(uri, data_type, characteristic, nested) ==
    LET prop == SAMMProperty(uri, get_local_name(uri), Some(<<"Q">>),
                             characteristic, data_type, None)
    IN  [prop EXCEPT
            !.is_collection = Truthy(characteristic)
                              /\ parser_is_collection_characteristic(characteristic[1]),
            !.json_path = Some(IF nested THEN <<"a",".">> \o get_local_name(uri)
                               ELSE get_local_name(uri)),
            !.parent_property = IF nested THEN Some(<<"a">>) ELSE None,
            !.is_array_element = nested]

PlanPool(uri) ==
    { PlanProp(uri, data_type, characteristic, nested) :
        data_type \in PlanTypes, characteristic \in PlanCharacteristics,
        nested \in BOOLEAN }

\* the same property as _extract_nested_properties places it elsewhere
\* (lines 290-293)
PlanPropAt(prop, json_path, parent_name, parent_is_collection) ==
    [prop EXCEPT !.json_path = Some(json_path),
                 !.parent_property = Some(parent_name),
                 !.is_array_element = parent_is_collection]

\* the other places of a nested source property: in the collection a that is
\* serialized as p; in a collection a that is itself nested in a property
\* named a; in the single Entity a
PlanPlaces ==
    { <<<<"p",".","q">>, <<"a">>, TRUE>>, <<<<"a",".","a",".","q">>, <<"a">>, TRUE>>, <<<<"a",".","q">>, <<"a">>, FALSE>> }

\* the data types of the properties at these places
PlacedTypes ==
    { None, Some(xsd_string), Some(xsd(<<"i","n","t","e","g","e","r">>)), Some(xsd(<<"d","a","t","e">>)) }

SourcePlanPool ==
    PlanPool(<<"s","#","q">>)
    \cup { PlanPropAt(PlanProp(<<"s","#","q">>, data_type, characteristic, TRUE),
                      place[1], place[2], place[3]) :
             data_type \in PlacedTypes, characteristic \in PlanCharacteristics,
             place \in PlanPlaces }
    \cup { PlanPropAt(PlanProp(<<"s","#","v","a","l","u","e">>, data_type, characteristic, TRUE),
                      <<"p","c","f",".","v","a","l","u","e">>, <<"p","c","f">>, TRUE) :
             data_type \in PlacedTypes, characteristic \in PlanCharacteristics }

TargetPlanPool ==
    PlanPool(<<"t","#","q">>)
    \cup { PlanProp(<<"t","#","p","c","f","V","a","l","u","e">>, data_type, characteristic, FALSE) :
             data_type \in PlacedTypes, characteristic \in PlanCharacteristics }

\* create_mapping is called for the pairs the matcher matched, with the
\* method and confidence it found
PlanInit ==
    /\ \E source_prop \in SourcePlanPool, target_prop \in TargetPlanPool :
          /\ find_best_match(source_prop, target_prop) # None
          /\ plan_source = Some(source_prop)
          /\ plan_target = Some(target_prop)
          /\ plan_match = find_best_match(source_prop, target_prop)
    /\ ppc = "call"
    /\ plan_mapping = None
    /\ plan_log = <<>>
    /\ MatcherIdle
    /\ ParserIdle
    /\ GeneratorIdle
    /\ AssemblerIdle

SpecPlan == PlanInit /\ [][PlanNext]_vars

----------------------------------------------------------------------------
(* The assembler on its own: build_complete_transformation applied to a
   bounded family of mapping lists *)

MaxMappings == 3

\* the json_path of the target properties
TargetPaths == { <<"a">>, <<"a",".","b">>, <<"a",".","b",".","c">>, <<"b">>, <<"b",".","a">>, <<"a",".","a">> }

\* the k-th source property: top level, json_path s1, s2, ...
AssembleSource(k) ==
    top_level_property(
        SAMMProperty(<<"s","#","s">> \o <<DigitOf[k]>>, <<"s">> \o <<DigitOf[k]>>,
                     Some(<<"Q">>), None, None, None))

\* the k-th target property, with the json_path the parser gave it
AssembleTarget(k, json_path) ==
    [SAMMProperty(<<"t","#","t">> \o <<DigitOf[k]>>, <<"t">> \o <<DigitOf[k]>>,
                  Some(<<"Q">>), None, None, None)
        EXCEPT !.json_path = Some(json_path)]

\* the Mapping create_mapping makes for the k-th matched pair
AssembledMapping(k, json_path) ==
    LET source_prop == AssembleSource(k)
        target_prop == AssembleTarget(k, json_path)
        found == find_best_match(source_prop, target_prop)
    IN  create_mapping(source_prop, target_prop, found[1], found[2])

AssembleInit ==
    /\ \E paths \in SeqsUpTo(TargetPaths, MaxMappings) :
          asm_mappings = [k \in DOMAIN paths |-> AssembledMapping(k, paths[k])]
    /\ transformation = EmptyDict
    /\ asm_i = 1
    /\ apc = "loop"
    /\ asm_log = <<>>
    /\ MatcherIdle
    /\ ParserIdle
    /\ PlannerIdle
    /\ GeneratorIdle

SpecAssemble == AssembleInit /\ [][AssembleNext]_vars

----------------------------------------------------------------------------
(* The generator: generate applied to a source and a target model file *)

\* no Aspect node
FileNoAspect == GraphOf(FALSE, <<>>, << Entry(P_c, None) >>, <<>>)
\* an Aspect without properties
FileEmpty == GraphOf(TRUE, <<>>, <<>>, <<>>)
\* two scalar properties
FileFlat == GraphOf(TRUE, << Entry(P_c, None), Entry(Q_a, None) >>, <<>>, <<>>)
\* a collection of E1 and a single E2
FileNested ==
    GraphOf(TRUE, << Entry(P_a, None), Entry(P_b, None) >>,
            << Entry(P_c, None) >>, << Entry(P_c, None) >>)
\* a collection of E1, which holds an E2
FileDeep ==
    GraphOf(TRUE, << Entry(P_a, None) >>, << Entry(P_b, None) >>,
            << Entry(P_c, None) >>)
\* E1 holds a property whose characteristic refers to E1
FileCyclic ==
    GraphOf(TRUE, << Entry(P_a, None) >>, << Entry(P_d, None) >>, <<>>)

GenFiles == {FileNoAspect, FileEmpty, FileFlat, FileNested, FileDeep, FileCyclic}

\* generate lines 53-55 on entry: parse_file is called for the source model
GenInit ==
    /\ \E source_file \in GenFiles, target \in GenFiles, threshold \in Thresholds :
          /\ ParserEntry(source_file)
          /\ target_file = target
          /\ MatcherConstructed(threshold)
    /\ gpc = "parse_source"
    /\ source_aspect = <<>>
    /\ target_aspect = <<>>
    /\ mappings = <<>>
    /\ complete_transformation = EmptyDict
    /\ unmapped = [source |-> <<>>, target |-> <<>>]
    /\ warnings = <<>>
    /\ result = None
    /\ files_written = {}
    /\ gen_raised = "none"
    /\ log = <<>>
    /\ PlannerIdle
    /\ AssemblerIdle

SpecGen == GenInit /\ [][GenerateNext]_vars

----------------------------------------------------------------------------
(* Properties of the matcher *)

MatchIdx == 1..Len(matches)
SourceIdx == 1..Len(source_properties)
TargetIdx == 1..Len(target_properties)

\* the score of the candidate pair at positions (i, j); 0 when no tier applies
ScoreOf(i, j) ==
    LET r == find_best_match(source_properties[i], target_properties[j])
    IN  IF r = None THEN 0 ELSE r[2]

HasScore(i, j) ==
    find_best_match(source_properties[i], target_properties[j]) # None

\* the target URIs taken by the Matches of sources before position i
ConsumedBefore(i) ==
    { matches[k].target_prop.uri : k \in { h \in MatchIdx : matches[h].s_idx < i } }

\* C1 (as claimed): no target identifier and no source identifier occurs in
\* more than one Match of the result, whatever the input sequences are.
C1_OneMatchPerIdentifier ==
    \A a \in MatchIdx : \A b \in MatchIdx :
        a # b => /\ matches[a].target_prop.uri # matches[b].target_prop.uri
                 /\ matches[a].source_prop.uri # matches[b].source_prop.uri

\* C4: a source whose turn is over has a Match exactly when some target not
\* consumed by an earlier Match scored at or above the threshold at its turn;
\* otherwise it is left unmatched and matching goes on (no error position).
C4_MatchIffCandidateReachesThreshold ==
    /\ mpc \in {"outer", "inner", "done"}
    /\ \A i \in SourceIdx :
         i < si =>
           ( (\E k \in MatchIdx : matches[k].s_idx = i)
             <=> (\E j \in TargetIdx :
                     /\ target_properties[j].uri \notin ConsumedBefore(i)
                     /\ HasScore(i, j)
                     /\ ScoreOf(i, j) >= confidence_threshold) )

\* C4 witness: matching is over, one source was matched, and another was left
\* unmatched although a target scores above the threshold against it, that
\* target having been consumed earlier.
C4_Witness ==
    /\ mpc = "done"
    /\ \E k \in MatchIdx : TRUE
    /\ \E i \in SourceIdx :
         /\ \A k \in MatchIdx : matches[k].s_idx # i
         /\ \E j \in TargetIdx :
              /\ HasScore(i, j) /\ ScoreOf(i, j) >= confidence_threshold
              /\ target_properties[j].uri \in ConsumedBefore(i)

Present(opt) == opt # None /\ opt[1] # <<>>
Tier1(s, t) ==
    Present(s.characteristic) /\ Present(t.characteristic)
    /\ s.characteristic = t.characteristic
Tier2(s, t) ==
    Present(s.preferred_name) /\ Present(t.preferred_name)
    /\ normalize_name(s.preferred_name[1]) = normalize_name(t.preferred_name[1])
Tier3(s, t) == lower(s.local_name) = lower(t.local_name)

TierResult(s, t, r) ==
    /\ Tier1(s, t) => r = <<"characteristic_match", 90>>
    /\ ~Tier1(s, t) /\ Tier2(s, t) => r = <<"preferred_name_match", 80>>
    /\ ~Tier1(s, t) /\ ~Tier2(s, t) /\ Tier3(s, t) => r = <<"property_uri_match", 70>>
    /\ ~Tier1(s, t) /\ ~Tier2(s, t) /\ ~Tier3(s, t) => r = None

\* C5: every scored candidate pair, and every emitted Match, carries the method
\* and score of the first tier it satisfies in the order characteristic (0.9),
\* preferred name (0.8), local name (0.7); a pair satisfying none has no score.
C5_FirstSatisfiedTierDecides ==
    /\ match_result.pair # <<0, 0>> =>
         TierResult(source_properties[match_result.pair[1]],
                    target_properties[match_result.pair[2]],
                    match_result.result)
    /\ \A k \in MatchIdx :
         TierResult(matches[k].source_prop, matches[k].target_prop,
                    <<matches[k].method, matches[k].confidence>>)

\* C5 witness: a Match by characteristic whose pair also satisfies the
\* local-name tier, and a scored pair that satisfies no tier.
C5_Witness ==
    /\ \E k \in MatchIdx :
         /\ matches[k].method = "characteristic_match"
         /\ Tier3(matches[k].source_prop, matches[k].target_prop)
    /\ match_result.pair # <<0, 0>>
    /\ match_result.result = None

Methods == {"characteristic_match", "preferred_name_match", "property_uri_match"}

C7_EarliestBestTargetChosen ==
    \A k \in MatchIdx : \A j \in TargetIdx :
        target_properties[j].uri \notin ConsumedBefore(matches[k].s_idx) =>
            /\ ScoreOf(matches[k].s_idx, j) <= matches[k].confidence
            /\ j < matches[k].t_idx =>
                   ScoreOf(matches[k].s_idx, j) < matches[k].confidence

\* C7 witness: a Match whose target is followed by a different unconsumed
\* target with the same score.
C7_Witness ==
    \E k \in MatchIdx : \E j \in TargetIdx :
        /\ j > matches[k].t_idx
        /\ target_properties[j].uri # matches[k].target_prop.uri
        /\ target_properties[j].uri \notin ConsumedBefore(matches[k].s_idx)
        /\ ScoreOf(matches[k].s_idx, j) = matches[k].confidence

\* C23: match_properties is greedy and never backtracks. Every step either
\* leaves the Matches alone or appends one Match for the source whose turn it
\* is, after the Matches of all earlier sources (source order); the target of
\* the new Match was not consumed by an earlier source and scores highest
\* against the source among the targets not consumed; no Match is ever removed
\* or changed and no consumed target is ever released, also when a later
\* source scores strictly higher against it.
C23_GreedyWithoutBacktracking ==
    [][ /\ matched_targets \subseteq matched_targets'
        /\ \/ matches' = matches
           \/ /\ Len(matches') = Len(matches) + 1
              /\ SubSeq(matches', 1, Len(matches)) = matches
              /\ LET m == matches'[Len(matches')]
                 IN  /\ m.s_idx = si
                     /\ si' = si + 1
                     /\ \A k \in MatchIdx : matches[k].s_idx < m.s_idx
                     /\ m.target_prop.uri \notin matched_targets
                     /\ \A k \in MatchIdx :
                            matches[k].target_prop.uri # m.target_prop.uri
                     /\ m.target_prop.uri \in matched_targets'
                     /\ m.confidence = ScoreOf(m.s_idx, m.t_idx)
                     /\ \A j \in TargetIdx :
                            target_properties[j].uri \notin matched_targets
                            => ScoreOf(m.s_idx, j) <= m.confidence
      ]_vars

\* C23 witness: matching is over; a target went to an earlier source although
\* a later source scores strictly higher against it, and the later source got
\* another target or none.
C23_Witness ==
    /\ mpc = "done"
    /\ \E k \in MatchIdx : \E i \in SourceIdx :
         /\ i > matches[k].s_idx
         /\ ScoreOf(i, matches[k].t_idx) > matches[k].confidence
         /\ ScoreOf(i, matches[k].t_idx) >= confidence_threshold
         /\ \A h \in MatchIdx :
              matches[h].s_idx = i => matches[h].t_idx # matches[k].t_idx

----------------------------------------------------------------------------
(* Properties of the parser *)

PropIdx == 1..Len(all_properties)

\* the key under which a property is serialized
KeyOf(p) == OrElse(p.payload_name, p.local_name)

\* q is the property through which the nested property p was reached
IsParentOf(q, p) ==
    /\ p.parent_property = Some(q.local_name)
    /\ p.json_path[1] = q.json_path[1] \o <<".">> \o KeyOf(p)

RECURSIVE HasCollectionAncestor(_)
HasCollectionAncestor(p) ==
    \E k \in PropIdx :
        /\ IsParentOf(all_properties[k], p)
        /\ (all_properties[k].is_collection
            \/ HasCollectionAncestor(all_properties[k]))

\* C2 (as claimed): flattening a file whose Entities refer to each other in a
\* cycle ends normally, and the recursion never holds the same Entity more
\* than twice (the cycle is cut at its first detected repetition).
C2_CycleCutAtFirstRepetition ==
    /\ raised # "RecursionError"
    /\ \A e \in EntityURIs :
         Cardinality({ k \in DOMAIN stack : stack[k].entity = e }) <= 2

\* C3 (as claimed): in the returned sequence a property is an array element
\* exactly when one of its ancestors, at any depth, is a collection.
C3_ArrayElementIffCollectionAncestor ==
    fpc = "returned" =>
        \A k \in PropIdx :
            all_properties[k].is_array_element
                <=> HasCollectionAncestor(all_properties[k])

\* C8 (as claimed): in the sequence returned for any Aspect every json_path is
\* non-empty and no two properties have the same json_path.
C8_JsonPathsNonEmptyAndUnique ==
    fpc = "returned" =>
        /\ \A k \in PropIdx : Truthy(all_properties[k].json_path)
        /\ \A k \in PropIdx : \A h \in PropIdx :
              k # h => all_properties[k].json_path # all_properties[h].json_path

\* the keys of the properties listed together by one subject are non-empty,
\* hold no ".", and differ from each other
KeysWellFormed(g) ==
    \A s \in Subjects :
        LET items == get_properties(g, s)
            key(k) == OrElse(items[k].payloadName, get_local_name(items[k].property))
        IN  /\ \A k \in DOMAIN items : key(k) # <<>> /\ ~Contains(key(k), ".")
            /\ \A k \in DOMAIN items : \A h \in DOMAIN items :
                  k # h => key(k) # key(h)

\* C8 (amended): when the properties listed together by the Aspect, and by each
\* Entity, have non-empty, dot-free, pairwise different keys (payload_name, or
\* local name without one), every json_path of the sequence is non-empty and no
\* two properties of it have the same json_path.
C8_JsonPathsUniqueForWellFormedKeys ==
    KeysWellFormed(graph) =>
        /\ \A k \in PropIdx : Truthy(all_properties[k].json_path)
        /\ \A k \in PropIdx : \A h \in PropIdx :
              k # h => all_properties[k].json_path # all_properties[h].json_path

\* C8 witness: a returned sequence for well-formed keys in which the same
\* Entity property occurs twice, reached through two parents.
C8_Witness ==
    /\ fpc = "returned"
    /\ KeysWellFormed(graph)
    /\ \E k \in PropIdx : \E h \in PropIdx :
          /\ k # h
          /\ all_properties[k].uri = all_properties[h].uri
          /\ all_properties[k].parent_property # None

\* the Entity whose properties are nested under the property declared as uri
DeclaredEntity(uri) ==
    LET c == value_characteristic(uri)
    IN  IF c = None THEN None
        ELSE LET d == value_dataType(c[1])
             IN  IF d # None /\ d[1] \in EntityURIs THEN d ELSE None

\* the occurrence of a declared item under a parent (None at top level)
Occurrence(item, parent_path, parent_name) ==
    LET key == IF item.payloadName # None /\ item.payloadName[1] # <<>>
               THEN item.payloadName[1]
               ELSE get_local_name(item.property)
    IN  [uri |-> item.property,
         json_path |-> IF parent_path = None THEN key
                       ELSE parent_path[1] \o <<".">> \o key,
         parent_property |-> parent_name]

RECURSIVE DepthFirst(_, _, _, _, _)
\* the occurrences below the declared items in depth-first order: each item,
\* then the occurrences below it, then its next sibling
DepthFirst(g, items, parent_path, parent_name, fuel) ==
    IF items = <<>> \/ fuel = 0 THEN <<>>
    ELSE LET occ == Occurrence(items[1], parent_path, parent_name)
             e == DeclaredEntity(items[1].property)
         IN  <<occ>>
             \o (IF e = None THEN <<>>
                 ELSE DepthFirst(g, g.properties[e[1]], Some(occ.json_path),
                                 Some(get_local_name(occ.uri)), fuel - 1))
             \o DepthFirst(g, Tail(items), parent_path, parent_name, fuel)

RECURSIVE BelowEach(_, _)
\* for each declared top-level item in turn, the occurrences below it in
\* depth-first order
BelowEach(g, items) ==
    IF items = <<>> THEN <<>>
    ELSE LET occ == Occurrence(items[1], None, None)
             e == DeclaredEntity(items[1].property)
         IN  (IF e = None THEN <<>>
              ELSE DepthFirst(g, g.properties[e[1]], Some(occ.json_path),
                              Some(get_local_name(occ.uri)), MaxDepth))
             \o BelowEach(g, Tail(items))

\* the top-level occurrences in declared order, then the nested ones
TopLevelFirst(g) ==
    LET items == g.properties[AspectURI]
    IN  [k \in DOMAIN items |-> Occurrence(items[k], None, None)]
        \o BelowEach(g, items)

\* the URIs of a sequence of properties or occurrences, in order
UrisOf(seq) == [k \in DOMAIN seq |-> seq[k].uri]

\* C24 (as claimed): the returned sequence is in depth-first discovery order:
\* siblings in declared order, every nested property after its parent, and the
\* nested descendants of a property, top-level or nested, before that
\* property's next sibling.
C24_DepthFirstOrder ==
    fpc = "returned" =>
        UrisOf(all_properties)
          = UrisOf(DepthFirst(graph, graph.properties[AspectURI], None, None,
                              MaxDepth + 1))

\* C24 (amended): the returned sequence holds the top-level properties first,
\* in declared order, and then, for each top-level property in declared order,
\* its nested descendants in depth-first discovery order: nested siblings in
\* declared order, every nested property after its parent, and the nested
\* descendants of a nested property before that property's next sibling.
C24_TopLevelFirstThenDepthFirst ==
    fpc = "returned" => UrisOf(all_properties) = UrisOf(TopLevelFirst(graph))

\* C24 witness: a returned sequence of two top-level properties, the first of
\* which has a nested property with two nested properties of its own.
C24_Witness ==
    /\ fpc = "returned"
    /\ Len(aspect_properties) = 2
    /\ Len(all_properties) >= 5
    /\ all_properties[3].parent_property = Some(aspect_properties[1].local_name)
    /\ all_properties[4].parent_property = Some(all_properties[3].local_name)
    /\ all_properties[5].parent_property = Some(all_properties[3].local_name)

\* C25: in the returned sequence a top-level property has json_path =
\* payload_name if set, else local_name, and no parent_property; a nested
\* property has json_path = its parent's json_path + "." + (payload_name if
\* set, else local_name) and parent_property = the local name of its immediate
\* parent, at every depth.
C25_PathAndParentOfEveryProperty ==
    fpc = "returned" =>
        LET expected == TopLevelFirst(graph)
        IN  /\ Len(all_properties) = Len(expected)
            /\ \A k \in PropIdx :
                  /\ all_properties[k].json_path = Some(expected[k].json_path)
                  /\ all_properties[k].parent_property
                       = expected[k].parent_property
                  /\ k <= Len(aspect_properties)
                       <=> all_properties[k].parent_property = None

\* C25 witness: a returned sequence with a top-level property that has a
\* payload_name, a property nested below it and a property nested one level
\* deeper.
C25_Witness ==
    /\ fpc = "returned"
    /\ \E k \in PropIdx : \E h \in PropIdx : \E j \in PropIdx :
          /\ k <= Len(aspect_properties)
          /\ Truthy(all_properties[k].payload_name)
          /\ all_properties[h].parent_property = Some(all_properties[k].local_name)
          /\ all_properties[h].json_path[1]
               = all_properties[k].payload_name[1] \o <<".">> \o all_properties[h].local_name
          /\ all_properties[j].parent_property = Some(all_properties[h].local_name)
          /\ all_properties[j].json_path[1]
               = all_properties[h].json_path[1] \o <<".">> \o all_properties[j].local_name

----------------------------------------------------------------------------
(* Properties of the generator *)

\* C9: when the source or the target file holds no Aspect node, parse_file
\* raises, generate lets the error through, returns no TransformationResult
\* and writes neither mapping_result.json nor transformation.jsonata; and a
\* generation is stopped by nothing else: every run that ends without a
\* result ended on a file without an Aspect node.
C9_OnlyMissingAspectStopsGeneration ==
    /\ (gpc \in {"parse_source", "parse_target"} /\ fpc = "parse_file"
          /\ ~graph.has_aspect)
       => (result = None /\ files_written = {})
    /\ (fpc = "raised" /\ ~graph.has_aspect) => raised = "ValueError"
    /\ gpc = "raised" => (result = None /\ files_written = {})
    /\ gpc = "raised" => (~graph.has_aspect /\ gen_raised = "ValueError")

\* the half of C9 the code keeps: a file without an Aspect node ends the run
\* with parse_file's ValueError, no result and no file
C9_MissingAspectAborts ==
    /\ (fpc = "raised" /\ ~graph.has_aspect) => raised = "ValueError"
    /\ (gpc = "raised" /\ ~graph.has_aspect)
       => (gen_raised = "ValueError" /\ result = None /\ files_written = {})
    /\ gpc = "returned" => (result # None /\ files_written # {})

\* a run stopped on a target file without an Aspect node, after the source
\* file was parsed
C9_MissingAspectWitness ==
    /\ gpc = "raised"
    /\ ~graph.has_aspect
    /\ graph = target_file
    /\ source_aspect # <<>>
    /\ gen_raised = "ValueError"

\* a run stopped although both files hold an Aspect node
C9_StoppedWithAspects ==
    /\ gpc = "raised"
    /\ graph.has_aspect
    /\ gen_raised = "RecursionError"

----------------------------------------------------------------------------
(* Properties of the transformer *)

\* the name of a data type: what follows the namespace, in lower case
NormalName(data_type) == lower(get_local_name(data_type))

NumericSubtypes ==
    { lower(<<"i","n","t","e","g","e","r">>), lower(<<"i","n","t">>), lower(<<"f","l","o","a","t">>), lower(<<"d","o","u","b","l","e">>),
      lower(<<"d","e","c","i","m","a","l">>), lower(<<"n","o","n","N","e","g","a","t","i","v","e","I","n","t","e","g","e","r">>), lower(<<"p","o","s","i","t","i","v","e","I","n","t","e","g","e","r">>) }

Castable(source_name, target_name) ==
    \/ source_name \in NumericSubtypes /\ target_name \in NumericSubtypes
    \/ source_name = <<"s","t","r","i","n","g">> \/ target_name = <<"s","t","r","i","n","g">>
    \/ source_name = <<"b","o","o","l","e","a","n">> \/ target_name = <<"b","o","o","l","e","a","n">>

\* the pair create_mapping was called for gives both data types and their
\* names differ
TypesPresentAndDiffer ==
    /\ plan_source[1].data_type # None
    /\ plan_target[1].data_type # None
    /\ NormalName(plan_source[1].data_type[1]) # NormalName(plan_target[1].data_type[1])

C10_WitnessNotCastable ==
    /\ ppc = "done"
    /\ TypesPresentAndDiffer
    /\ NormalName(plan_source[1].data_type[1]) = <<"l","o","n","g">>
    /\ NormalName(plan_target[1].data_type[1]) = <<"i","n","t","e","g","e","r">>
    /\ plan_mapping[1].transformation_type = "direct"

\* the characteristic's declared graph type is a collection type
CollectionTyped(characteristic) ==
    /\ value_type(characteristic) # None
    /\ value_type(characteristic)[1] \in
           {"samm-c:Collection", "samm-c:Set", "samm-c:List",
            "samm-c:SortedSet", "samm-c:TimeSeries"}

\* both characteristics are given and they differ
CharacteristicsDiffer ==
    /\ plan_source[1].characteristic # None
    /\ plan_target[1].characteristic # None
    /\ plan_source[1].characteristic # plan_target[1].characteristic

\* C11: a matched pair whose characteristics are both given, differ, and of
\* which exactly one is collection-typed is a structure_transform whatever its
\* data types; a pair whose characteristics differ but are both collections
\* or both scalars is never a structure_transform.
C11_StructureTransformIffOneCollection ==
    (ppc = "done" /\ CharacteristicsDiffer)
    => (plan_mapping[1].transformation_type = "structure_transform"
        <=> (CollectionTyped(plan_source[1].characteristic[1])
             # CollectionTyped(plan_target[1].characteristic[1])))

\* two scalar characteristics, the same data type: a structure_transform
C11_ScalarsAsStructureTransform ==
    /\ ppc = "done"
    /\ plan_source[1].characteristic = Some(C_Settings)
    /\ plan_target[1].characteristic = Some(C_Text)
    /\ plan_source[1].data_type = plan_target[1].data_type
    /\ plan_mapping[1].transformation_type = "structure_transform"

\* a List against a scalar, castable data types: a type_cast
C11_CastBeforeStructure ==
    /\ ppc = "done"
    /\ plan_source[1].characteristic = Some(C_EList)
    /\ plan_target[1].characteristic = Some(C_Text)
    /\ plan_source[1].data_type = Some(xsd(<<"i","n","t","e","g","e","r">>))
    /\ plan_target[1].data_type = Some(xsd_string)
    /\ plan_mapping[1].transformation_type = "type_cast"

\* the planner and the flattener take the same decision on the characteristic
\* of prop, the one the declared graph type calls for
DecisionsAgree(prop) ==
    prop.characteristic # None =>
        /\ transformer_is_collection_characteristic(prop.characteristic[1])
             = prop.is_collection
        /\ prop.is_collection = CollectionTyped(prop.characteristic[1])

\* C26: on the characteristics of a planned pair the planner's collection
\* decision is the flattener's: both say collection exactly when the declared
\* graph type is one of Collection, Set, List, SortedSet, TimeSeries.
C26_PlannerAgreesWithFlattener ==
    ppc = "done" => DecisionsAgree(plan_source[1]) /\ DecisionsAgree(plan_target[1])

\* the flattener decides by the declared graph type
C26_FlattenerDecidesByType ==
    ppc = "done" =>
        \A prop \in {plan_source[1], plan_target[1]} :
            prop.characteristic # None =>
                prop.is_collection = CollectionTyped(prop.characteristic[1])

\* a scalar characteristic named c#Settings: a collection for the planner only
C26_ScalarTakenForCollection ==
    /\ ppc = "done"
    /\ plan_source[1].characteristic = Some(C_Settings)
    /\ ~plan_source[1].is_collection
    /\ transformer_is_collection_characteristic(C_Settings)
    /\ plan_target[1].characteristic = Some(C_Text)
    /\ plan_mapping[1].transformation_type = "structure_transform"

\* a TimeSeries named c#Series: a collection for the flattener only
C26_TimeSeriesTakenForScalar ==
    /\ ppc = "done"
    /\ plan_source[1].characteristic = Some(C_Series)
    /\ plan_source[1].is_collection
    /\ ~transformer_is_collection_characteristic(C_Series)
    /\ plan_target[1].characteristic = Some(C_Text)
    /\ plan_source[1].data_type = plan_target[1].data_type
    /\ plan_mapping[1].transformation_type = "direct"

\* the data types are both given, their names differ and the pair is not
\* castable
NotCastable ==
    /\ TypesPresentAndDiffer
    /\ ~Castable(NormalName(plan_source[1].data_type[1]),
                 NormalName(plan_target[1].data_type[1]))

\* C12: a matched pair whose normalized data types differ and are not
\* castable gets a Mapping (the planner does not fail) and its kind is
\* direct.
C12_NotCastableIsDirect ==
    (ppc = "done" /\ NotCastable)
    => (plan_mapping # None /\ plan_mapping[1].transformation_type = "direct")

\* the identifier of the characteristic contains the name of a collection kind
NamesCollection(characteristic) ==
    \/ IsSubstring(<<"L","i","s","t">>, characteristic)
    \/ IsSubstring(<<"S","e","t">>, characteristic)
    \/ IsSubstring(<<"C","o","l","l","e","c","t","i","o","n">>, characteristic)

\* C12 as amended: such a pair gets a Mapping, a warning is logged, and the
\* kind is never type_cast: it is structure_transform when the characteristics
\* are both given, differ and exactly one identifier names a collection kind,
\* and direct otherwise.
C12_NotCastableIsNeverCast ==
    (ppc = "done" /\ NotCastable)
    => /\ plan_mapping # None
       /\ plan_log # <<>>
       /\ plan_mapping[1].transformation_type =
             IF /\ CharacteristicsDiffer
                /\ NamesCollection(plan_source[1].characteristic[1])
                     # NamesCollection(plan_target[1].characteristic[1])
             THEN "structure_transform"
             ELSE "direct"

\* a date against a long, a List against a scalar
C12_Witness ==
    /\ ppc = "done"
    /\ NotCastable
    /\ plan_source[1].data_type = Some(xsd(<<"d","a","t","e">>))
    /\ plan_target[1].data_type = Some(xsd(<<"l","o","n","g">>))
    /\ plan_source[1].characteristic = Some(C_EList)
    /\ plan_target[1].characteristic = Some(C_Text)
    /\ plan_log = <<"Cannot cast">>
    /\ plan_mapping[1].transformation_type = "structure_transform"

\* the cast function the table gives for the name of a data type
CastFunction(name) ==
    IF name = <<"s","t","r","i","n","g">> THEN Some(<<"$","s","t","r","i","n","g">>)
    ELSE IF name = <<"b","o","o","l","e","a","n">> THEN Some(<<"$","b","o","o","l","e","a","n">>)
    ELSE IF name \in NumericSubtypes THEN Some(<<"$","n","u","m","b","e","r">>)
    ELSE None

\* C13: the fragment of a type_cast Mapping is the cast function of the
\* target's normalized data type applied to the base access expression
\* ($string for string, $number for the seven numeric names, $boolean for
\* boolean), and the base expression alone only when the target type is not
\* in the table.
C13_CastFunctionByTargetType ==
    (ppc = "done" /\ plan_mapping[1].transformation_type = "type_cast")
    => LET function == CastFunction(NormalName(plan_target[1].data_type[1]))
           base == base_expression(plan_source[1], plan_target[1])
       IN  plan_mapping[1].jsonata_fragment =
               IF function # None
               THEN function[1] \o <<"(">> \o base \o <<")">>
               ELSE base

\* the same for the targets whose name the table holds in lower case
C13_CastFunctionForLowerCaseKeys ==
    (/\ ppc = "done"
     /\ plan_mapping[1].transformation_type = "type_cast"
     /\ NormalName(plan_target[1].data_type[1])
           \notin {lower(<<"n","o","n","N","e","g","a","t","i","v","e","I","n","t","e","g","e","r">>), lower(<<"p","o","s","i","t","i","v","e","I","n","t","e","g","e","r">>)})
    => LET function == CastFunction(NormalName(plan_target[1].data_type[1]))
           base == base_expression(plan_source[1], plan_target[1])
       IN  plan_mapping[1].jsonata_fragment =
               IF function # None
               THEN function[1] \o <<"(">> \o base \o <<")">>
               ELSE base

\* the scenario: quantity as integer to quantity as string
C13_ScenarioWitness ==
    /\ ppc = "done"
    /\ plan_source[1].data_type = Some(xsd(<<"i","n","t","e","g","e","r">>))
    /\ plan_target[1].data_type = Some(xsd_string)
    /\ plan_source[1].json_path = Some(<<"q">>)
    /\ plan_mapping[1].transformation_type = "type_cast"
    /\ plan_mapping[1].jsonata_fragment = <<"$","s","t","r","i","n","g","(","$",".","q",")">>

\* a string to a nonNegativeInteger is a type_cast without a cast function
C13_NoFunctionForNonNegativeInteger ==
    /\ ppc = "done"
    /\ plan_source[1].data_type = Some(xsd_string)
    /\ plan_target[1].data_type = Some(xsd(<<"n","o","n","N","e","g","a","t","i","v","e","I","n","t","e","g","e","r">>))
    /\ plan_source[1].json_path = Some(<<"q">>)
    /\ plan_mapping[1].transformation_type = "type_cast"
    /\ plan_mapping[1].jsonata_fragment = <<"$",".","q">>

\* the number of places at which sub occurs in s
Occurrences(sub, s) ==
    Cardinality({ k \in 0..(Len(s) - Len(sub)) : SubSeq(s, k + 1, k + Len(sub)) = sub })

\* the path with the first-element marker after the segment of the immediate
\* parent, which is the segment before the last
MarkedPath(json_path) ==
    LET parts == split_dots(json_path)
    IN  join_dots([parts EXCEPT ![Len(parts) - 1] = @ \o <<"[","0","]">>])

\* C14: when the source is an array element and the target is not, the path
\* of the fragment has exactly one marker [0], right after the segment of the
\* source's immediate parent (also when the parent is serialized under an
\* alias or an earlier segment has the parent's name); otherwise the path has
\* no marker.
C14_OneMarkerAfterParentSegment ==
    ppc = "done"
    => LET fragment == plan_mapping[1].jsonata_fragment
           json_path == plan_source[1].json_path[1]
       IN  IF plan_source[1].is_array_element /\ ~plan_target[1].is_array_element
           THEN /\ Occurrences(<<"[","0","]">>, fragment) = 1
                /\ IsSubstring(<<"$",".">> \o MarkedPath(json_path), fragment)
           ELSE /\ Occurrences(<<"[","0","]">>, fragment) = 0
                /\ IsSubstring(<<"$",".">> \o json_path, fragment)

\* the parent is serialized as p: no marker
C14_AliasWithoutMarker ==
    /\ ppc = "done"
    /\ plan_source[1].json_path = Some(<<"p",".","q">>)
    /\ plan_source[1].is_array_element
    /\ ~plan_target[1].is_array_element
    /\ Occurrences(<<"[","0","]">>, plan_mapping[1].jsonata_fragment) = 0

\* the collection a is nested in a property named a: the marker follows the
\* outer a
C14_MarkerAfterEarlierSegment ==
    /\ ppc = "done"
    /\ plan_source[1].json_path = Some(<<"a",".","a",".","q">>)
    /\ ~plan_target[1].is_array_element
    /\ IsSubstring(<<"$",".","a","[","0","]",".","a",".","q">>, plan_mapping[1].jsonata_fragment)

\* the source of the pair is nested at pcf.value in the collection pcf and
\* the target is a top-level property
PcfScenario ==
    /\ plan_source[1].json_path = Some(<<"p","c","f",".","v","a","l","u","e">>)
    /\ plan_source[1].parent_property = Some(<<"p","c","f">>)
    /\ plan_source[1].is_array_element
    /\ plan_target[1].parent_property = None
    /\ ~plan_target[1].is_array_element

\* C15: for a source nested at pcf.value in the collection pcf and a
\* top-level target that is not an array element, create_mapping gives
\* transformation_type structure_transform and a fragment accessing
\* pcf[0].value.
C15_ArrayElementToScalarIsStructureTransform ==
    (ppc = "done" /\ PcfScenario)
    => /\ plan_mapping[1].transformation_type = "structure_transform"
       /\ IsSubstring(<<"p","c","f","[","0","]",".","v","a","l","u","e">>, plan_mapping[1].jsonata_fragment)

\* the fragment of the scenario is as claimed, whatever the kind
C15_FragmentOfScenario ==
    (ppc = "done" /\ PcfScenario)
    => IsSubstring(<<"$",".","p","c","f","[","0","]",".","v","a","l","u","e">>, plan_mapping[1].jsonata_fragment)

\* the scenario with equal characteristics and data types: direct
C15_ScenarioIsDirect ==
    /\ ppc = "done"
    /\ PcfScenario
    /\ plan_target[1].json_path = Some(<<"p","c","f","V","a","l","u","e">>)
    /\ plan_source[1].characteristic = plan_target[1].characteristic
    /\ plan_source[1].data_type = plan_target[1].data_type
    /\ plan_mapping[1].transformation_type = "direct"
    /\ plan_mapping[1].jsonata_fragment = <<"$",".","p","c","f","[","0","]",".","v","a","l","u","e">>

----------------------------------------------------------------------------
(* Properties of the assembler *)

RECURSIVE Lookup(_, _)
\* what the document holds at the end of a path followed segment by segment
\* from the root: Some(value), or None where the path leaves the document
Lookup(items, keys) ==
    IF keys[1] \notin DOMAIN items THEN None
    ELSE IF Len(keys) = 1 THEN Some(items[keys[1]])
    ELSE IF items[keys[1]].kind # "dict" THEN None
    ELSE Lookup(items[keys[1]].items, Tail(keys))

RECURSIVE EntriesOf(_, _)
\* the number of entries of a container, those of the containers in it included
EntriesOf(items, left) ==
    IF left = {} THEN 0
    ELSE LET key == CHOOSE key \in left : TRUE
         IN  1 + (IF items[key].kind = "dict"
                  THEN EntriesOf(items[key].items, DOMAIN items[key].items)
                  ELSE 0)
               + EntriesOf(items, left \ {key})

Entries(items) == EntriesOf(items, DOMAIN items)

\* the segments of the target path of the k-th mapping
SegmentsOf(k) == split_dots(asm_mappings[k].target_property.json_path[1])

\* the paths that lead to a container
ContainerPaths(items) ==
    { keys \in UNION { { SubSeq(SegmentsOf(k), 1, n) : n \in DOMAIN SegmentsOf(k) } :
                          k \in DOMAIN asm_mappings } :
        /\ Lookup(items, keys) # None
        /\ Lookup(items, keys)[1].kind = "dict" }

\* C16: the document assembled from a single Mapping holds that Mapping's
\* fragment at the end of its target path, followed segment by segment from
\* the root, and nothing else.
C16_SingleMappingRoundTrip ==
    (apc = "returned" /\ Len(asm_mappings) = 1)
    => /\ Lookup(transformation, SegmentsOf(1))
            = Some(Leaf(asm_mappings[1].jsonata_fragment))
       /\ Entries(transformation) = Len(SegmentsOf(1))

\* a single Mapping with a path of three segments
C16_Witness ==
    /\ apc = "returned"
    /\ Len(asm_mappings) = 1
    /\ asm_mappings[1].target_property.json_path = Some(<<"a",".","b",".","c">>)
    /\ Lookup(transformation, <<<<"a">>, <<"b">>, <<"c">>>>) = Some(Leaf(<<"$",".","s","1">>))

\* the loop is at a Mapping whose path passes, after n segments, through a
\* terminal fragment
PassesThroughFragment(n) ==
    /\ apc = "loop"
    /\ asm_i <= Len(asm_mappings)
    /\ n < Len(SegmentsOf(asm_i))
    /\ Lookup(transformation, SubSeq(SegmentsOf(asm_i), 1, n)) # None
    /\ Lookup(transformation, SubSeq(SegmentsOf(asm_i), 1, n))[1].kind = "str"

\* C17: when the path of the Mapping being assembled passes through a segment
\* that holds a terminal fragment, that fragment is replaced by a new
\* container which holds the later Mapping's fragment and nothing else (a then
\* a.b leaves a as a container holding b), and a warning is logged.
C17_ChildrenReplaceEarlierScalar ==
    [][\A k \in DOMAIN asm_mappings : \A n \in DOMAIN SegmentsOf(k) :
        (k = asm_i /\ PassesThroughFragment(n) /\ asm_i' = asm_i + 1)
        => LET keys == SegmentsOf(asm_i)
               held == Lookup(transformation', SubSeq(keys, 1, n))
           IN  /\ held # None
               /\ held[1].kind = "dict"
               /\ Entries(held[1].items) = Len(keys) - n
               /\ Lookup(transformation', keys)
                    = Some(Leaf(asm_mappings[asm_i].jsonata_fragment))
               /\ Len(asm_log') = Len(asm_log) + 1]_vars

\* a, then a.b
C17_Witness ==
    /\ apc = "returned"
    /\ Len(asm_mappings) = 2
    /\ asm_mappings[1].target_property.json_path = Some(<<"a">>)
    /\ asm_mappings[2].target_property.json_path = Some(<<"a",".","b">>)
    /\ transformation = Put(EmptyDict, <<"a">>, Dict(Put(EmptyDict, <<"b">>, Leaf(<<"$",".","s","2">>))))
    /\ asm_log = <<"Overwriting non-dict value">>

\* the loop is at a Mapping whose final segment holds a container
EndsAtContainer ==
    /\ apc = "loop"
    /\ asm_i <= Len(asm_mappings)
    /\ SegmentsOf(asm_i) \in ContainerPaths(transformation)

\* C18: a path that holds a container holds a container in every later
\* state of the assembly, and a Mapping whose final segment holds a container
\* is discarded: the document is left as it was and a warning is logged.
C18_ContainersStay ==
    [][/\ ContainerPaths(transformation) \subseteq ContainerPaths(transformation')
       /\ (EndsAtContainer /\ asm_i' = asm_i + 1)
          => /\ transformation' = transformation
             /\ Len(asm_log') = Len(asm_log) + 1]_vars

\* a.b, then a
C18_Witness ==
    /\ apc = "returned"
    /\ Len(asm_mappings) = 2
    /\ asm_mappings[1].target_property.json_path = Some(<<"a",".","b">>)
    /\ asm_mappings[2].target_property.json_path = Some(<<"a">>)
    /\ transformation = Put(EmptyDict, <<"a">>, Dict(Put(EmptyDict, <<"b">>, Leaf(<<"$",".","s","1">>))))
    /\ asm_log = <<"Skipping value assignment">>

\* the target paths of the mappings being assembled differ from one another
DistinctTargetPaths ==
    \A j, k \in DOMAIN asm_mappings :
        j # k => asm_mappings[j].target_property.json_path
                   # asm_mappings[k].target_property.json_path

\* no target path continues another one: no path is another path followed by
\* further segments
PrefixFree ==
    \A j, k \in DOMAIN asm_mappings :
        Len(SegmentsOf(j)) < Len(SegmentsOf(k))
        => SubSeq(SegmentsOf(k), 1, Len(SegmentsOf(j))) # SegmentsOf(j)

\* the last Mapping with the target path of the k-th
LastWithPathOf(k) ==
    CHOOSE h \in DOMAIN asm_mappings :
        /\ SegmentsOf(h) = SegmentsOf(k)
        /\ \A j \in DOMAIN asm_mappings : SegmentsOf(j) = SegmentsOf(k) => j <= h

\* the paths and the beginnings of paths of the Mappings
PathsAndPrefixes ==
    UNION { { SubSeq(SegmentsOf(k), 1, n) : n \in DOMAIN SegmentsOf(k) } :
               k \in DOMAIN asm_mappings }

\* the Mappings in the order perm
Reordered(perm) == [k \in DOMAIN asm_mappings |-> asm_mappings[perm[k]]]

\* the orders in which the Mappings can be passed
Orders ==
    { perm \in [DOMAIN asm_mappings -> DOMAIN asm_mappings] :
        \A j, k \in DOMAIN asm_mappings : perm[j] = perm[k] => j = k }

\* C28: when no target path continues another, the assembled document holds
\* at every target path the fragment of the last Mapping with that path (a
\* later Mapping replaces an earlier one with the same path), holds nothing
\* but these fragments and the containers on the way to them, and no warning
\* is logged; when the paths also differ from one another, assembling the
\* Mappings in any other order gives the same document.
C28_PrefixFreePathsAssembleInAnyOrder ==
    (apc = "returned" /\ PrefixFree)
    => /\ \A k \in DOMAIN asm_mappings :
             Lookup(transformation, SegmentsOf(k))
               = Some(Leaf(asm_mappings[LastWithPathOf(k)].jsonata_fragment))
       /\ Entries(transformation) = Cardinality(PathsAndPrefixes)
       /\ asm_log = <<>>
       /\ DistinctTargetPaths
          => \A perm \in Orders :
                build_complete_transformation(Reordered(perm)).obj = transformation

\* three Mappings to a.b, b.a and a.b again: a.b holds the third fragment
C28_LaterReplacesEarlier ==
    /\ apc = "returned"
    /\ Len(asm_mappings) = 3
    /\ asm_mappings[1].target_property.json_path = Some(<<"a",".","b">>)
    /\ asm_mappings[2].target_property.json_path = Some(<<"b",".","a">>)
    /\ asm_mappings[3].target_property.json_path = Some(<<"a",".","b">>)
    /\ Lookup(transformation, <<<<"a">>, <<"b">>>>) = Some(Leaf(<<"$",".","s","3">>))
    /\ Lookup(transformation, <<<<"b">>, <<"a">>>>) = Some(Leaf(<<"$",".","s","2">>))

\* C28 witness: three Mappings to a.b, b.a and a.a, paths that differ and of
\* which none continues another
C28_Witness ==
    /\ apc = "returned"
    /\ PrefixFree /\ DistinctTargetPaths
    /\ Len(asm_mappings) = 3
    /\ asm_mappings[1].target_property.json_path = Some(<<"a",".","b">>)
    /\ asm_mappings[2].target_property.json_path = Some(<<"b",".","a">>)
    /\ asm_mappings[3].target_property.json_path = Some(<<"a",".","a">>)
    /\ Entries(transformation) = 5

----------------------------------------------------------------------------
(* Properties of the Entity cache and of the unmapped lists *)

\* C19: during one Aspect parse _parse_entity is called at most once for each
\* Entity identifier; an Entity reached again is taken from the cache.
C19_EachEntityParsedOnce ==
    \A j, k \in DOMAIN parse_calls : parse_calls[j] = parse_calls[k] => j = k

\* E2 is reached through the nested property a.b and through the top-level
\* property b, and parsed both times
C19_EntityParsedTwice ==
    /\ fpc = "returned"
    /\ graph.properties[AspectURI] = << Entry(P_a, None), Entry(P_b, None) >>
    /\ graph.properties[E1] = << Entry(P_b, None) >>
    /\ graph.properties[E2] = << Entry(P_c, None) >>
    /\ parse_calls = << E1, E2, E2 >>

\* the local names of the properties at the positions of props that are not
\* in taken, in order
NamesOutside(props, taken) ==
    LET positions == SelectSeq([k \in DOMAIN props |-> k],
                               LAMBDA k : k \notin taken)
    IN  [j \in DOMAIN positions |-> props[positions[j]].local_name]

\* C20: in every generation result the unmapped lists hold the names of
\* exactly the source and the target properties that take part in no Mapping.
C20_UnmappedIffInNoMapping ==
    (gpc \in {"write", "returned"})
    => /\ unmapped.source =
             NamesOutside(source_aspect, { matches[k].s_idx : k \in DOMAIN matches })
       /\ unmapped.target =
             NamesOutside(target_aspect, { matches[k].t_idx : k \in DOMAIN matches })

\* the same with a property counted as mapped when a property of the same
\* URI is
C20_UnmappedByUri ==
    (gpc \in {"write", "returned"})
    => /\ unmapped.source =
             NamesOutside(source_aspect,
                 { i \in DOMAIN source_aspect :
                     \E k \in DOMAIN matches :
                         matches[k].source_prop.uri = source_aspect[i].uri })
       /\ unmapped.target =
             NamesOutside(target_aspect,
                 { i \in DOMAIN target_aspect :
                     \E k \in DOMAIN matches :
                         matches[k].target_prop.uri = target_aspect[i].uri })

\* n#c is flattened at a.c and at b.c; a.c is mapped, b.c is not and is
\* missing from the list
C20_UnmappedOccurrenceNotListed ==
    /\ gpc = "returned"
    /\ \E i, j \in DOMAIN source_aspect :
          /\ i # j
          /\ source_aspect[i].uri = source_aspect[j].uri
          /\ \E k \in DOMAIN matches : matches[k].s_idx = i
          /\ \A k \in DOMAIN matches : matches[k].s_idx # j
          /\ \A k \in DOMAIN unmapped.source :
                unmapped.source[k] # source_aspect[j].local_name

\* the scenario: a pair scoring 0.7 is mapped at threshold 0.6, and at 0.75
\* both of its properties are listed as unmapped
C20_ScenarioMapped ==
    /\ gpc = "returned"
    /\ confidence_threshold = 60
    /\ \E k \in DOMAIN mappings : mappings[k].confidence = 70

C20_ScenarioUnmapped ==
    /\ gpc = "returned"
    /\ confidence_threshold = 75
    /\ \E i \in DOMAIN source_aspect, j \in DOMAIN target_aspect :
          /\ find_best_match(source_aspect[i], target_aspect[j])
                = <<"property_uri_match", 70>>
          /\ \A k \in DOMAIN matches : matches[k].s_idx # i /\ matches[k].t_idx # j
          /\ \E k \in DOMAIN unmapped.source :
                unmapped.source[k] = source_aspect[i].local_name
          /\ \E k \in DOMAIN unmapped.target :
                unmapped.target[k] = target_aspect[j].local_name

----------------------------------------------------------------------------
(* Properties of the warnings and of the size of the document *)

\* C21: every anomaly met during a run that is not fatal (an uncastable pair,
\* a type_cast without a cast function, a path collision during assembly)
\* lets the run return a result, and the result reflects it: its warnings
\* list or its unmapped lists hold an entry.
C21_AnomaliesAreInTheResult ==
    /\ (gpc = "write" /\ log # <<>>) => result # None
    /\ (gpc = "returned" /\ log # <<>>)
       => \/ result[1].warnings # <<>>
          \/ result[1].unmapped_properties.source # <<>>
          \/ result[1].unmapped_properties.target # <<>>

\* the runs with anomalies return a result
C21_AnomaliesLetTheRunReturn ==
    (gpc \in {"write", "returned"} /\ log # <<>>) => result # None

\* a, a.b and a.b.c are mapped to themselves: two collisions are logged and the
\* result holds no warning and no unmapped property
C21_CollisionNotInTheResult ==
    /\ gpc = "returned"
    /\ Len(mappings) = 3
    /\ log = <<"Overwriting non-dict value", "Overwriting non-dict value">>
    /\ result[1].warnings = <<>>
    /\ result[1].unmapped_properties = [source |-> <<>>, target |-> <<>>]

\* C22: build_complete_transformation returns a dict with as many top-level
\* entries as Mappings were passed in (none for the empty list), and every
\* Mapping has a non-empty fragment.
C22_OneTopLevelEntryPerMapping ==
    (apc = "returned" /\ DistinctTargetPaths)
    => /\ Cardinality(DOMAIN transformation) = Len(asm_mappings)
       /\ \A k \in DOMAIN asm_mappings : asm_mappings[k].jsonata_fragment # <<>>

\* what holds instead: one top-level entry for each first segment of a target
\* path
C22_OneTopLevelEntryPerFirstSegment ==
    apc = "returned"
    => /\ DOMAIN transformation = { SegmentsOf(k)[1] : k \in DOMAIN asm_mappings }
       /\ \A k \in DOMAIN asm_mappings : asm_mappings[k].jsonata_fragment # <<>>

\* two Mappings, to a.b and to a.a, without collision: one top-level entry
C22_TwoMappingsOneEntry ==
    /\ apc = "returned"
    /\ Len(asm_mappings) = 2
    /\ asm_mappings[1].target_property.json_path = Some(<<"a",".","b">>)
    /\ asm_mappings[2].target_property.json_path = Some(<<"a",".","a">>)
    /\ DOMAIN transformation = { <<"a">> }
    /\ asm_log = <<>>

\* the number of warnings of one type
WarningsOfType(type) ==
    Cardinality({ k \in DOMAIN warnings : warnings[k].type = type })

\* C27: no run produces a low_confidence warning, whatever the threshold: the
\* warnings are of type unmapped_source or unmapped_target only, at most one of
\* each, and the result carries the same list.
C27_NoLowConfidenceWarning ==
    /\ \A k \in DOMAIN warnings :
          warnings[k].type \in {"unmapped_source", "unmapped_target"}
    /\ WarningsOfType("unmapped_source") <= 1
    /\ WarningsOfType("unmapped_target") <= 1
    /\ result # None => result[1].warnings = warnings

\* C27 witness: a returned run at a threshold below 0.7 with a Mapping at the
\* lowest confidence, 0.7, an unmapped property on one side and one warning,
\* of type unmapped_source or unmapped_target.
C27_Witness ==
    /\ gpc = "returned"
    /\ confidence_threshold < 70
    /\ \E k \in DOMAIN mappings : mappings[k].confidence = 70
    /\ Len(unmapped.source) + Len(unmapped.target) >= 1
    /\ Len(warnings) = 1
    /\ WarningsOfType("unmapped_source") + WarningsOfType("unmapped_target") = 1

====
